---- MODULE Spec2Model ----
(***************************************************************************)
(* Model of the kachina-installer update engine (TypeScript front end):    *)
(*   - DownloadTaskManager and its task classes        (src/src/consts.ts) *)
(*   - runDfsDownload, runMergedGroupDownload,                             *)
(*     fallbackToIndividualDownload, the range merger     (src/src/dfs.ts) *)
(*   - the download loop and finalisation of runInstall  (src/src/App.vue) *)
(*   - the planner of runInstall                         (src/src/App.vue) *)
(*   - refreshDfsIndex, DFS2 sessions and chunk URLs      (src/src/dfs.ts) *)
(* JavaScript is single threaded: one action is the synchronous code that  *)
(* runs between two awaits of the event loop.                              *)
(***************************************************************************)
EXTENDS Integers, Sequences, FiniteSets, TLC

VARIABLES
  files,              \* DfsUpdateTask objects, by file id
  local,              \* context.local: names of the embedded payloads
  tasks,              \* DownloadTask objects, by task id (order of addTask)
  exec,               \* one executeTask coroutine per task
  largeTaskQueue, smallTaskQueue, localTaskQueue,
  largeTaskRunning, smallTaskRunning, localTaskRunning,
  allTasks, completedTasks, failedTasks,
  sizeThreshold5,     \* 5 * sizeThreshold (the threshold is sizes[i] * 0.8)
  resolveCompletion,  \* TRUE iff the resolve callback is stored
  completionPromise,  \* "none" | "pending" | "resolved"
  waiter,             \* the caller of waitForCompletion: "idle" | "awaiting" | "returned"
  todo,               \* tasks the caller has still to add
  faults,             \* failures the environment may still inject
  overrun,            \* a running counter has left 0..slots, also inside a handler
  execCount,          \* number of calls of task.execute(), by task id
  hist,               \* per file: install operations issued and Ok reports received
  mergeFiles,         \* the task list handed to mergeSmallFilesIntoGroups
  dfsIndexCache,      \* dfsIndexCache.get(dfsSource): the remote index, if cached
  groups,             \* the MergedGroupInfo list it returned
  mergePc,            \* "input" | "done"
  processed,          \* what preprocessFiles returned: processedFiles, mergedGroups
  config,             \* INSTALLER_CONFIG / PROJECT_CONFIG / latest_meta as runInstall reads them
  run,                \* install() / runInstall(): the await it is suspended at, the
                      \* backend calls still ahead, the step.value set at the end
  step,               \* step.value of App.vue
  limiter,            \* mapLimit(diff_files, 6, ...): next item, running count, error seen
  finalOps,           \* finalisation operations handed to the backend, in order
  latest_meta,        \* the manifest runInstall installs: hashed, patches, deletes
  disk,               \* the install directory, by case-folded relative path
  hashKey,            \* "" until chosen, then "md5" or "xxh"
  local_meta,         \* what deep_readdir_with_metadata returned
  selection,          \* runInstall's choice of manifest: the tags it sees, the dialog it awaits
  multiInstall,       \* createMultiInstall(): its chunks, the ranges computed, the request built
  rangeRun,           \* a DFS2 run: the ranges collected for the session, the ranges requested
  chunkAgg,           \* ChunkUrlAggregator with the promises it handed out and its batch calls
  github,             \* GitHubPlugin: its versionCache, the getChunkUrl calls in flight, the URLs returned
  storeRun,           \* the callers of the session store: cleanups in flight, sessions ended and removed
  reader,             \* refreshDfsIndex(): the package it reads, its offset, its segments
  dfs2Sessions,       \* the dfs2Sessions map: session id by API URL, 0 if none
  session,            \* createDfs2Session(): its loop counters and the await it is at
  server,             \* the DFS2 server: sessions opened, the challenge it waits for, sessions granted
  aggregator,         \* ChunkUrlAggregator: keys of pendingRequests, currentSessionUrl, timer
  cleanup,            \* cleanupDfs2Session(): the API URL it is ending, if any
  requests            \* the number of getDfs2Url calls, what they did, the batch requests issued

tmVars == <<files, local, tasks, exec, largeTaskQueue, smallTaskQueue,
            localTaskQueue, largeTaskRunning, smallTaskRunning,
            localTaskRunning, allTasks, completedTasks, failedTasks,
            sizeThreshold5, resolveCompletion, completionPromise, waiter,
            todo, faults, overrun, execCount, hist>>

mergeVars == <<mergeFiles, dfsIndexCache, groups, mergePc, processed>>

installVars == <<config, run, step, limiter, finalOps>>

auxVars == <<rangeRun, chunkAgg, storeRun, github>>

planVars == <<latest_meta, disk, hashKey, local_meta, selection, multiInstall, auxVars>>

remoteVars == <<reader, dfs2Sessions, session, server, aggregator, cleanup, requests>>

vars == <<tmVars, mergeVars, installVars, planVars, remoteVars>>

----------------------------------------------------------------------------
(* Bounds of the model *)

MaxFaults == 4     \* failures injected into a run
SlotFaults == 3    \* failures injected into a run that saturates the large queue

----------------------------------------------------------------------------
(* Program constants *)

LARGE_CONCURRENT == 4
SMALL_CONCURRENT == 6
LOCAL_CONCURRENT == 16
\* variant: one more attempt
maxRetriesPlusOne == 3 + 1
maxRetries == 3
DefaultThreshold == 1024 * 1024

----------------------------------------------------------------------------
(* Generic helpers *)

Range(s) == {s[i] : i \in 1..Len(s)}

Min(a, b) == IF a < b THEN a ELSE b
Max(a, b) == IF a > b THEN a ELSE b

RECURSIVE InsertDesc(_, _)
InsertDesc(s, x) ==
  IF s = <<>> THEN <<x>>
  ELSE IF x > Head(s) THEN <<x>> \o s
  ELSE <<Head(s)>> \o InsertDesc(Tail(s), x)

RECURSIVE SortDesc(_)
SortDesc(s) == IF s = <<>> THEN <<>> ELSE InsertDesc(SortDesc(Tail(s)), Head(s))

----------------------------------------------------------------------------
(* Data: DfsUpdateTask and DfsMetadataPatchInfo (src/src/types.ts) *)

NoPatch == [present |-> FALSE, from |-> "-", to |-> "-", size |-> 0]
PatchInfo(from, to, size) == [present |-> TRUE, from |-> from, to |-> to, size |-> size]

Item(name, size, hash, patch, lpatch) ==
  [file_name |-> name, size |-> size, hash |-> hash, patch |-> patch,
   lpatch |-> lpatch, downloaded |-> 0, running |-> FALSE, failed |-> FALSE]

\* local.find((l) => l.name === item[hashKey])
HasLocalFile(item, loc) == item.hash \in loc
\* local.find((l) => l.name === item.lpatch?.from[hashKey])
HasLpatchFile(item, loc) == item.lpatch.present /\ item.lpatch.from \in loc

\* the branches of runDfsDownload with the Patch test ahead of the HybridPatch test
SelectModePatchFirst(item, loc, disable_patch, disable_local) ==
  IF HasLocalFile(item, loc) /\ ~disable_local THEN "Local"
  ELSE IF item.patch.present /\ ~disable_patch THEN "Patch"
  ELSE IF HasLpatchFile(item, loc) /\ item.lpatch.present
          /\ ~disable_patch /\ ~disable_local THEN "HybridPatch"
  ELSE "Direct"

\* the branch of runDfsDownload that issues the install operation
SelectMode(item, loc, disable_patch, disable_local) ==
  IF HasLocalFile(item, loc) /\ ~disable_local THEN "Local"
  ELSE IF HasLpatchFile(item, loc) /\ item.lpatch.present
          /\ ~disable_patch /\ ~disable_local THEN "HybridPatch"
  ELSE IF item.patch.present /\ ~disable_patch THEN "Patch"
  ELSE "Direct"

\* variant: the failed flag is not looked at
getFileInstallModeUnfailed(item, loc) ==
  IF HasLocalFile(item, loc) THEN "Local"
  ELSE IF HasLpatchFile(item, loc) /\ item.lpatch.present THEN "HybridPatch"
  ELSE IF item.patch.present THEN "Patch"
  ELSE "Direct"

\* getFileInstallMode
getFileInstallMode(item, loc) ==
  IF item.failed THEN "Direct"
  ELSE IF HasLocalFile(item, loc) THEN "Local"
  ELSE IF HasLpatchFile(item, loc) /\ item.lpatch.present THEN "HybridPatch"
  ELSE IF item.patch.present THEN "Patch"
  ELSE "Direct"

----------------------------------------------------------------------------
(* Task objects (src/src/consts.ts) *)

SingleFileTask(f, mgr) ==
  [kind |-> "SingleFileTask", file |-> f, members |-> <<>>,
   totalEffectiveSize |-> 0, taskManager |-> mgr]
LocalFileTask(f) ==
  [kind |-> "LocalFileTask", file |-> f, members |-> <<>>,
   totalEffectiveSize |-> 0, taskManager |-> FALSE]
MergedGroupTask(ms, eff, mgr) ==
  [kind |-> "MergedGroupTask", file |-> 0, members |-> ms,
   totalEffectiveSize |-> eff, taskManager |-> mgr]

\* entries of the caller's program that are not tasks to add:
\* `await manager.waitForCompletion()` and an await of anything else
WaitCall ==
  [kind |-> "waitForCompletion", file |-> 0, members |-> <<>>,
   totalEffectiveSize |-> 0, taskManager |-> FALSE]
Yield ==
  [kind |-> "await", file |-> 0, members |-> <<>>,
   totalEffectiveSize |-> 0, taskManager |-> FALSE]

IsTask(e) == e.kind \in {"SingleFileTask", "LocalFileTask", "MergedGroupTask"}

\* an executeTask coroutine: its queue type, its loop counter, the await it is
\* suspended at, and the runDfsDownload call it is in (file, arguments, branch)
IdleExec == [type |-> "none", attempt |-> 0, pc |-> "queued", cur |-> 0,
             disable_patch |-> FALSE, disable_local |-> FALSE,
             mode |-> "-", via |-> "-", rest |-> <<>>]

\* DownloadTask.getSize
getSize(S, task) ==
  IF task.kind = "MergedGroupTask" THEN task.totalEffectiveSize
  ELSE S.files[task.file].size

\* calculateOptimalThreshold, times 5: sizes are those of the constructor's files
calculateOptimalThreshold5(sizes) ==
  IF Len(sizes) = 0 THEN 5 * DefaultThreshold
  ELSE IF Len(sizes) <= 3 THEN 0
  ELSE LET sorted == SortDesc(sizes)
           targetLargeFiles == Min(4, Max(2, (Len(sizes) * 3) \div 10))
           thresholdIndex == Min(targetLargeFiles, Len(sizes) - 1)
       IN 4 * sorted[thresholdIndex + 1]

----------------------------------------------------------------------------
(* The state of the manager as one record, so that the synchronous call    *)
(* chains addTask -> tryStartTasks -> executeTask -> task.execute can be   *)
(* written as operators from state to state.                               *)

St ==
  [files |-> files, local |-> local, tasks |-> tasks, exec |-> exec,
   largeTaskQueue |-> largeTaskQueue, smallTaskQueue |-> smallTaskQueue,
   localTaskQueue |-> localTaskQueue,
   largeTaskRunning |-> largeTaskRunning, smallTaskRunning |-> smallTaskRunning,
   localTaskRunning |-> localTaskRunning,
   allTasks |-> allTasks, completedTasks |-> completedTasks,
   failedTasks |-> failedTasks, sizeThreshold5 |-> sizeThreshold5,
   resolveCompletion |-> resolveCompletion,
   completionPromise |-> completionPromise, waiter |-> waiter,
   overrun |-> overrun, execCount |-> execCount, hist |-> hist]

Set(S) ==
  /\ files' = S.files
  /\ local' = S.local
  /\ tasks' = S.tasks
  /\ exec' = S.exec
  /\ largeTaskQueue' = S.largeTaskQueue
  /\ smallTaskQueue' = S.smallTaskQueue
  /\ localTaskQueue' = S.localTaskQueue
  /\ largeTaskRunning' = S.largeTaskRunning
  /\ smallTaskRunning' = S.smallTaskRunning
  /\ localTaskRunning' = S.localTaskRunning
  /\ allTasks' = S.allTasks
  /\ completedTasks' = S.completedTasks
  /\ failedTasks' = S.failedTasks
  /\ sizeThreshold5' = S.sizeThreshold5
  /\ resolveCompletion' = S.resolveCompletion
  /\ completionPromise' = S.completionPromise
  /\ waiter' = S.waiter
  /\ overrun' = S.overrun
  /\ execCount' = S.execCount
  /\ hist' = S.hist

Queue(S, type) ==
  CASE type = "large" -> S.largeTaskQueue
    [] type = "small" -> S.smallTaskQueue
    [] type = "local" -> S.localTaskQueue

Running(S, type) ==
  CASE type = "large" -> S.largeTaskRunning
    [] type = "small" -> S.smallTaskRunning
    [] type = "local" -> S.localTaskRunning

\* variant: the loops of tryStartTasks test `running <= CONCURRENT`
LimitInclusive(type) ==
  CASE type = "large" -> LARGE_CONCURRENT + 1
    [] type = "small" -> SMALL_CONCURRENT + 1
    [] type = "local" -> LOCAL_CONCURRENT + 1

Limit(type) ==
  CASE type = "large" -> LARGE_CONCURRENT
    [] type = "small" -> SMALL_CONCURRENT
    [] type = "local" -> LOCAL_CONCURRENT

\* the slot count of each queue, for the monitor `overrun`
Slots(type) ==
  CASE type = "large" -> 4
    [] type = "small" -> 6
    [] type = "local" -> 16

Monitor(S, type) ==
  [S EXCEPT !.overrun = @ \/ Running(S, type) < 0 \/ Running(S, type) > Slots(type)]

\* queue.shift(); running++
ShiftAndCount(S, type) ==
  Monitor(CASE type = "large" ->
                 [S EXCEPT !.largeTaskQueue = Tail(@), !.largeTaskRunning = @ + 1]
            [] type = "small" ->
                 [S EXCEPT !.smallTaskQueue = Tail(@), !.smallTaskRunning = @ + 1]
            [] type = "local" ->
                 [S EXCEPT !.localTaskQueue = Tail(@), !.localTaskRunning = @ + 1],
          type)

\* the finally block of executeTask: running--
Uncount(S, type) ==
  Monitor(CASE type = "large" -> [S EXCEPT !.largeTaskRunning = @ - 1]
            [] type = "small" -> [S EXCEPT !.smallTaskRunning = @ - 1]
            [] type = "local" -> [S EXCEPT !.localTaskRunning = @ - 1],
          type)

\* coroutine t hands an install operation for file f to ipc()
Issue(S, t, f, mode, via) ==
  [S EXCEPT !.hist[f] = Append(@, [ev |-> "install", mode |-> mode, via |-> via,
                                   task |-> t, attempt |-> S.exec[t].attempt])]

\* the backend reported {Ok: ...} for the chunk of member f
ReportOk(S, t, f) ==
  [S EXCEPT !.hist[f] = Append(@, [ev |-> "ok", mode |-> "Direct", via |-> "merged",
                                   task |-> t, attempt |-> S.exec[t].attempt])]

----------------------------------------------------------------------------
(* runDfsDownload (src/src/dfs.ts), called for file f by coroutine t *)

\* up to the first await: reset the counters, pick the branch; the Local
\* branch hands its operation to ipc() at once, the others await getDfsUrl
RunDfsDownloadBegin(S, t, f, disable_patch, disable_local, via) ==
  LET mode == SelectMode(S.files[f], S.local, disable_patch, disable_local)
      S1 == [S EXCEPT !.files[f].downloaded = 0,
                      !.files[f].running = TRUE,
                      !.exec[t].cur = f,
                      !.exec[t].disable_patch = disable_patch,
                      !.exec[t].disable_local = disable_local,
                      !.exec[t].mode = mode,
                      !.exec[t].via = via,
                      !.exec[t].pc = IF mode = "Local" THEN "ipc" ELSE "url"]
  IN IF mode = "Local"
       THEN Issue(S1, t, f, mode, via)
       ELSE S1

\* variant: no finally block, the running flag is left as it was
RunDfsDownloadEndNoFinally(S, f, ok) ==
  LET item == S.files[f]
  IN [S EXCEPT !.files[f].downloaded =
                  IF ~ok THEN 0
                  ELSE IF item.patch.present THEN item.patch.size ELSE item.size]

\* after the awaits: catch / finally and the last assignment
RunDfsDownloadEnd(S, f, ok) ==
  LET item == S.files[f]
  IN [S EXCEPT !.files[f].running = FALSE,
               !.files[f].downloaded =
                  IF ~ok THEN 0
                  ELSE IF item.patch.present THEN item.patch.size ELSE item.size]

----------------------------------------------------------------------------
(* runMergedGroupDownload (src/src/dfs.ts) *)

\* up to the await of the CDN url: mark every member running
RunMergedGroupDownloadBegin(S, t) ==
  LET ms == Range(S.tasks[t].members)
  IN [S EXCEPT !.files = [f \in DOMAIN S.files |->
                            IF f \in ms
                              THEN [S.files[f] EXCEPT !.running = TRUE, !.downloaded = 0]
                              ELSE S.files[f]],
               !.exec[t].pc = "murl"]

\* the InstallMultichunkStream operation: one Direct chunk per member
RECURSIVE IssueChunks(_, _, _)
IssueChunks(S, t, ms) ==
  IF ms = <<>> THEN S
  ELSE IssueChunks(Issue(S, t, Head(ms), "Direct", "merged"), t, Tail(ms))

\* result.results?.forEach(...): res[i] is "Ok", "Err" (an Err / error entry or
\* a malformed one) or "Absent" (no entry, or an object without Ok, Err, error)
RECURSIVE ProcessResults(_, _, _, _, _)
ProcessResults(S, t, ms, res, i) ==
  IF i > Len(ms) THEN S
  ELSE LET f == ms[i]
           S1 == CASE res[i] = "Err" ->
                        [S EXCEPT !.files[f].failed = TRUE,
                                  !.files[f].downloaded = 0]
                   [] res[i] = "Ok" ->
                        ReportOk([S EXCEPT !.files[f].failed = FALSE,
                                           !.files[f].downloaded = S.files[f].size],
                                 t, f)
                   [] OTHER -> S
       IN ProcessResults(S1, t, ms, res, i + 1)

RECURSIVE FailedFiles(_, _, _)
FailedFiles(ms, res, i) ==
  IF i > Len(ms) THEN <<>>
  ELSE (IF res[i] = "Err" THEN <<ms[i]>> ELSE <<>>) \o FailedFiles(ms, res, i + 1)

\* the finally block
RunMergedGroupDownloadFinally(S, t) ==
  LET ms == Range(S.tasks[t].members)
  IN [S EXCEPT !.files = [f \in DOMAIN S.files |->
                            IF f \in ms
                              THEN [S.files[f] EXCEPT
                                      !.running = FALSE,
                                      !.downloaded = IF S.files[f].failed
                                                       THEN @ ELSE S.files[f].size]
                              ELSE S.files[f]]]

\* fallbackToIndividualDownload and MergedGroupTask.execute's catch block
\* both start with: running = false, downloaded = 0, failed = undefined
ResetFiles(S, fs) ==
  [S EXCEPT !.files = [f \in DOMAIN S.files |->
                         IF f \in fs
                           THEN [S.files[f] EXCEPT !.running = FALSE,
                                                   !.downloaded = 0,
                                                   !.failed = FALSE]
                           ELSE S.files[f]]]

\* variant: the fallback disables Patch and Local
FallbackDisabledBegin(S, t, failedFiles) ==
  RunDfsDownloadBegin(
    [ResetFiles(S, Range(failedFiles)) EXCEPT !.exec[t].rest = Tail(failedFiles)],
    t, Head(failedFiles), TRUE, TRUE, "fallback")

\* fallbackToIndividualDownload up to its first await
FallbackToIndividualDownloadBegin(S, t, failedFiles) ==
  RunDfsDownloadBegin(
    [ResetFiles(S, Range(failedFiles)) EXCEPT !.exec[t].rest = Tail(failedFiles)],
    t, Head(failedFiles), FALSE, FALSE, "fallback")

----------------------------------------------------------------------------
(* DownloadTaskManager (src/src/consts.ts) *)

\* task.execute() up to its first await
TaskExecute(S, t) ==
  LET task == S.tasks[t]
      S1 == [S EXCEPT !.execCount[t] = @ + 1]
  IN IF task.kind = "MergedGroupTask"
       THEN RunMergedGroupDownloadBegin(S1, t)
       ELSE RunDfsDownloadBegin(S1, t, task.file,
                                S1.files[task.file].failed,
                                S1.files[task.file].failed, "task")

\* executeTask up to its first await: attempt = 1, task.execute()
ExecuteTaskBegin(S, t, type) ==
  TaskExecute([S EXCEPT !.exec[t].type = type, !.exec[t].attempt = 1], t)

RECURSIVE StartLoop(_, _)
StartLoop(S, type) ==
  IF Running(S, type) < Limit(type) /\ Len(Queue(S, type)) > 0
    THEN StartLoop(ExecuteTaskBegin(ShiftAndCount(S, type), Head(Queue(S, type)), type),
                   type)
    ELSE S

tryStartTasks(S) == StartLoop(StartLoop(StartLoop(S, "local"), "large"), "small")

\* variant: the completion promise is never resolved
checkCompletionNever(S) == S

checkCompletion(S) ==
  LET totalProcessed == Cardinality(S.completedTasks) + Cardinality(S.failedTasks)
      allQueuesEmpty == /\ Len(S.largeTaskQueue) = 0
                        /\ Len(S.smallTaskQueue) = 0
                        /\ Len(S.localTaskQueue) = 0
      noRunningTasks == /\ S.largeTaskRunning = 0
                        /\ S.smallTaskRunning = 0
                        /\ S.localTaskRunning = 0
  IN IF totalProcessed = Cardinality(S.allTasks) /\ allQueuesEmpty /\ noRunningTasks
          /\ S.resolveCompletion
       THEN [S EXCEPT !.resolveCompletion = FALSE,
                      !.completionPromise = "resolved",
                      !.waiter = IF @ = "awaiting" THEN "returned" ELSE @]
       ELSE S

\* the finally block of executeTask
ExecuteTaskFinally(S, t) ==
  tryStartTasks(checkCompletion(
    Uncount([S EXCEPT !.exec[t].pc = "done", !.exec[t].cur = 0], S.exec[t].type)))

\* executeTask after task.execute() has settled
ExecuteTaskSettled(S, t, ok) ==
  IF ok
    THEN ExecuteTaskFinally([S EXCEPT !.completedTasks = @ \cup {t}], t)
  ELSE IF S.exec[t].attempt = maxRetries
    THEN ExecuteTaskFinally([S EXCEPT !.failedTasks = @ \cup {t}], t)
  ELSE TaskExecute([S EXCEPT !.exec[t].attempt = @ + 1], t)

addTask(S, task) ==
  LET t == Len(S.tasks) + 1
      S1 == [S EXCEPT !.tasks = Append(@, task),
                      !.exec = Append(@, IdleExec),
                      !.execCount = Append(@, 0),
                      !.allTasks = @ \cup {t}]
      S2 == IF task.kind = "LocalFileTask"
              THEN [S1 EXCEPT !.localTaskQueue = Append(@, t)]
            ELSE IF 5 * getSize(S1, task) >= S1.sizeThreshold5
              THEN [S1 EXCEPT !.largeTaskQueue = Append(@, t)]
            ELSE [S1 EXCEPT !.smallTaskQueue = Append(@, t)]
  IN tryStartTasks(S2)

RECURSIVE AddFallbackTasks(_, _)
AddFallbackTasks(S, fs) ==
  IF fs = <<>> THEN S
  ELSE AddFallbackTasks(addTask(S, SingleFileTask(Head(fs), TRUE)), Tail(fs))

\* MergedGroupTask.execute after runMergedGroupDownload returned
MergedGroupReturned(S, t) ==
  ExecuteTaskSettled(RunMergedGroupDownloadFinally(S, t), t, TRUE)

\* MergedGroupTask.execute after runMergedGroupDownload threw: the catch block
MergedGroupThrew(S, t) ==
  LET task == S.tasks[t]
      S1 == RunMergedGroupDownloadFinally(S, t)
  IN IF task.taskManager
       THEN ExecuteTaskSettled(
              AddFallbackTasks(ResetFiles(S1, Range(task.members)), task.members),
              t, TRUE)
       ELSE ExecuteTaskSettled(S1, t, FALSE)

\* runDfsDownload of coroutine t has returned (ok) or thrown
DownloadSettled(S, t, ok) ==
  LET f == S.exec[t].cur
      S1 == RunDfsDownloadEnd(S, f, ok)
  IN IF S.tasks[t].kind # "MergedGroupTask"
       THEN ExecuteTaskSettled(S1, t, ok)
     ELSE IF ~ok
       THEN MergedGroupThrew([S1 EXCEPT !.files[f].failed = TRUE], t)
     ELSE IF S1.exec[t].rest = <<>>
       THEN MergedGroupReturned(S1, t)
     ELSE RunDfsDownloadBegin([S1 EXCEPT !.exec[t].rest = Tail(@)], t,
                              Head(S1.exec[t].rest), FALSE, FALSE, "fallback")

----------------------------------------------------------------------------
(* Inputs: the files of a run, the embedded payloads, the tasks the caller  *)
(* adds and the file sizes handed to the constructor.                       *)

KiB == 1024

PlainFile(name, size, hash) == Item(name, size, hash, NoPatch, NoPatch)
PatchFile(name, size, hash, old) ==
  Item(name, size, hash, PatchInfo(old, hash, size \div 4), NoPatch)
HybridFile(name, size, hash, old, emb) ==
  Item(name, size, hash, PatchInfo(old, hash, size \div 4),
       PatchInfo(emb, hash, size \div 4))

\* a patch task and an embedded (Local) task
WorkloadPatchLocal ==
  [files |-> <<PatchFile("a", 100 * KiB, "h1", "o1"), PlainFile("b", 50 * KiB, "h2")>>,
   local |-> {"h2"},
   ctor  |-> <<100 * KiB, 50 * KiB>>,
   faults |-> MaxFaults,
   todo  |-> <<SingleFileTask(1, TRUE), Yield, WaitCall, LocalFileTask(2)>>]

\* a merged group of a patch member and a plain member, and a hybrid task
WorkloadMerged ==
  [files |-> <<PatchFile("a", 40 * KiB, "h1", "o1"), PlainFile("b", 30 * KiB, "h2"),
               HybridFile("c", 200 * KiB, "h3", "o3", "e3")>>,
   local |-> {"e3"},
   ctor  |-> <<200 * KiB, 70 * KiB>>,
   faults |-> MaxFaults,
   todo  |-> <<SingleFileTask(3, TRUE), Yield,
               MergedGroupTask(<<1, 2>>, 40 * KiB, TRUE), WaitCall>>]

\* a merged group task constructed without a task manager
WorkloadMergedNoManager ==
  [files |-> <<PlainFile("a", 40 * KiB, "h1"), PlainFile("b", 30 * KiB, "h2")>>,
   local |-> {},
   ctor  |-> <<70 * KiB>>,
   faults |-> MaxFaults,
   todo  |-> <<WaitCall, MergedGroupTask(<<1, 2>>, 50 * KiB, FALSE)>>]

\* more than three files: a positive threshold, large and small tasks
WorkloadSizes ==
  [files |-> <<PlainFile("a", 900 * KiB, "h1"), PlainFile("b", 800 * KiB, "h2"),
               PlainFile("c", 700 * KiB, "h3"), PlainFile("d", 20 * KiB, "h4"),
               PlainFile("e", 10 * KiB, "h5")>>,
   local |-> {"h3"},
   ctor  |-> <<900 * KiB, 800 * KiB, 700 * KiB, 20 * KiB, 10 * KiB>>,
   faults |-> MaxFaults,
   todo  |-> <<SingleFileTask(1, TRUE), Yield, LocalFileTask(3), Yield,
               SingleFileTask(4, TRUE), WaitCall>>]

\* a caller that waits, adds one more task and waits again
WorkloadTwoWaits ==
  [files |-> <<PlainFile("a", 100 * KiB, "h1"), PlainFile("b", 50 * KiB, "h2")>>,
   local |-> {},
   ctor  |-> <<100 * KiB, 50 * KiB>>,
   faults |-> MaxFaults,
   todo  |-> <<SingleFileTask(1, TRUE), WaitCall, SingleFileTask(2, TRUE), WaitCall>>]

Workloads ==
  {WorkloadPatchLocal, WorkloadMerged, WorkloadMergedNoManager, WorkloadSizes,
   WorkloadTwoWaits}

\* workloads that fill the slots of one queue and leave tasks waiting
NLocalTasks == LOCAL_CONCURRENT + 1
NSmallTasks == SMALL_CONCURRENT + 1

\* three single tasks and a merged group of two, all in the large class
WorkloadLargeSlots ==
  [files |-> <<PatchFile("a", 100 * KiB, "h1", "o1"), PlainFile("b", 100 * KiB, "h2"),
               PlainFile("c", 100 * KiB, "h3"), PlainFile("d", 100 * KiB, "h4"),
               PlainFile("e", 100 * KiB, "h5")>>,
   local |-> {"h3", "h4", "h5"},
   ctor  |-> <<100 * KiB, 100 * KiB, 100 * KiB, 200 * KiB>>,
   faults |-> SlotFaults,
   todo  |-> <<SingleFileTask(3, TRUE), SingleFileTask(4, TRUE), SingleFileTask(5, TRUE),
               MergedGroupTask(<<1, 2>>, 200 * KiB, TRUE), WaitCall>>]

\* a manager constructed without files (threshold 1 MiB): every task is small
WorkloadSmallSlots ==
  [files |-> [f \in 1..NSmallTasks |-> PlainFile("f", 10 * KiB, "h")],
   local |-> {"h"},
   ctor  |-> <<>>,
   faults |-> SlotFaults,
   todo  |-> [f \in 1..NSmallTasks |-> SingleFileTask(f, TRUE)] \o <<WaitCall>>]

\* embedded files only
WorkloadLocalSlots ==
  [files |-> [f \in 1..NLocalTasks |-> PlainFile("f", 10 * KiB, "h")],
   local |-> {"h"},
   ctor  |-> [f \in 1..NLocalTasks |-> 10 * KiB],
   faults |-> 0,
   todo  |-> [f \in 1..NLocalTasks |-> LocalFileTask(f)] \o <<WaitCall>>]

SlotWorkloads == {WorkloadLargeSlots, WorkloadSmallSlots, WorkloadLocalSlots}

----------------------------------------------------------------------------
(* The state after `new DownloadTaskManager(files)` *)

InitManager(w) ==
  /\ files = w.files
  /\ local = w.local
  /\ todo = w.todo
  /\ tasks = <<>>
  /\ exec = <<>>
  /\ largeTaskQueue = <<>>
  /\ smallTaskQueue = <<>>
  /\ localTaskQueue = <<>>
  /\ largeTaskRunning = 0
  /\ smallTaskRunning = 0
  /\ localTaskRunning = 0
  /\ allTasks = {}
  /\ completedTasks = {}
  /\ failedTasks = {}
  /\ sizeThreshold5 = calculateOptimalThreshold5(w.ctor)
  /\ resolveCompletion = FALSE
  /\ completionPromise = "none"
  /\ waiter = "idle"
  /\ faults = w.faults
  /\ overrun = FALSE
  /\ execCount = <<>>
  /\ hist = [f \in DOMAIN w.files |-> <<>>]

\* mergeSmallFilesIntoGroups has not been handed anything
MergeIdle ==
  /\ mergeFiles = <<>>
  /\ dfsIndexCache = [present |-> FALSE, index |-> <<>>]
  /\ groups = <<>>
  /\ mergePc = "idle"
  /\ processed = [processedFiles |-> <<>>, mergedGroups |-> <<>>]

\* install() has not been called
InstallIdle ==
  /\ config = [online |-> FALSE, deletes |-> FALSE, runtimes |-> FALSE,
               createLnk |-> FALSE, isUpdate |-> FALSE, regSource |-> FALSE]
  /\ run = [pc |-> "idle", rest |-> <<>>, stepAfter |-> 0]
  /\ step = 1
  /\ limiter = [next |-> 1, running |-> 0, done |-> FALSE, settled |-> "pending"]
  /\ finalOps = <<>>

\* no tag_name: the manifest is absent (undefined or null)
NoTag == <<>>

\* runInstall has not looked for a manifest
SelectionIdle ==
  [enbedded_metadata |-> NoTag, remote |-> NoTag, online_meta |-> NoTag,
   latest_meta |-> NoTag, non_interactive |-> FALSE, silent |-> FALSE,
   isUpdate |-> FALSE, embedded_index |-> 0, source |-> "", asked |-> FALSE,
   confirmed |-> FALSE]

\* createMultiInstall has not been called
MultiInstallIdle ==
  [pc |-> "idle", chunks |-> <<>>, multipart |-> FALSE, ranges |-> <<>>, request |-> <<>>]

\* no DFS2 run has collected its ranges
RangeRunIdle ==
  [pc |-> "idle", collected |-> {}, requested |-> {}, pending |-> {}, fallback |-> {}]

\* the ChunkUrlAggregator singleton after construction, nothing requested
ChunkAggIdle ==
  [pendingRequests |-> <<>>, aggregationTimer |-> FALSE, currentSessionUrl |-> "",
   batches |-> {}, answered |-> {}, promises |-> <<>>, on |-> FALSE]

\* no caller is using the session store
StoreRunIdle == [nextId |-> 1, calls |-> 0, ended |-> {}, removed |-> {},
                 cleanups |-> {}, all |-> "idle"]

\* the repositories a GitHub source URL can name
Repos == {"o/r", "p/q"}

\* a GitHubPlugin just constructed: an empty versionCache (0: no entry), no call
GitHubIdle == [versionCache |-> [k \in Repos |-> [version |-> 0, resolvedUrl |-> <<>>]],
               latest |-> [k \in Repos |-> 1], inFlight |-> {}, calls |-> 0, returned |-> {}]

AuxIdle ==
  /\ rangeRun = RangeRunIdle
  /\ chunkAgg = ChunkAggIdle
  /\ storeRun = StoreRunIdle
  /\ github = GitHubIdle

\* runInstall has not read a manifest
PlanIdle ==
  /\ latest_meta = [hashed |-> <<>>, patches |-> <<>>, deletes |-> <<>>]
  /\ disk = <<>>
  /\ hashKey = ""
  /\ local_meta = <<>>
  /\ selection = SelectionIdle
  /\ multiInstall = MultiInstallIdle
  /\ AuxIdle

\* segments = {}: no segment parsed yet
NoSegments ==
  [config |-> FALSE, metadata |-> FALSE, theme |-> FALSE,
   hasIndex |-> FALSE, index |-> <<>>]

\* refreshDfsIndex has not been called
ReaderIdle ==
  reader = [pc |-> "idle", package |-> [magic |-> FALSE, region |-> <<>>],
            segments |-> NoSegments, error |-> "", calls |-> 0, fetches |-> 0]

\* the API URLs of the DFS2 resources
ApiUrls == {"https://dfs/a", "https://dfs/b"}

\* the chunk ranges asked for
Ranges == {"0-9", "10-19"}

NoChallenge == [type |-> "", data |-> 0]

\* createDfs2Session is not running
SessionAtRest(pc, calls) ==
  [pc |-> pc, apiUrl |-> "", retryAttempt |-> 0, challengeAttempts |-> 0,
   challengeResponse |-> <<>>, sessionId |-> 0,
   sessionResponse |-> [sid |-> 0, challenge |-> "", data |-> 0],
   result |-> 0, error |-> "", retried |-> {}, disturbed |-> FALSE, calls |-> calls]

\* no session, no chunk request, no cleanup; the environment may disturb
\* the session handshake `budget` times
SessionsAtStart(budget) ==
  /\ dfs2Sessions = [u \in ApiUrls |-> 0]
  /\ session = SessionAtRest("idle", 0)
  /\ server = [sessions |-> 0, issued |-> NoChallenge, granted |-> {}, faults |-> 0,
               budget |-> budget]
  /\ aggregator = [pendingRequests |-> {}, currentSessionUrl |-> <<>>,
                   aggregationTimer |-> FALSE, inFlight |-> 0]
  /\ cleanup = [pc |-> "idle", apiUrl |-> ""]
  /\ requests = [calls |-> 0, log |-> {}]

SessionIdle == SessionsAtStart(0)

RemoteIdle == ReaderIdle /\ SessionIdle

Init == (\E w \in Workloads : InitManager(w)) /\ MergeIdle /\ InstallIdle /\ PlanIdle /\ RemoteIdle

----------------------------------------------------------------------------
(* Actions *)

\* waitForCompletion up to the point where the caller awaits the promise
waitForCompletion(S) ==
  IF Cardinality(S.allTasks) = 0
    THEN [S EXCEPT !.waiter = "returned"]
  ELSE IF S.completionPromise = "none"
    THEN checkCompletion([S EXCEPT !.resolveCompletion = TRUE,
                                   !.completionPromise = "pending",
                                   !.waiter = "awaiting"])
  ELSE [S EXCEPT !.waiter = IF S.completionPromise = "resolved"
                              THEN "returned" ELSE "awaiting"]

\* the caller's program from its current position to its next await
RECURSIVE RunCaller(_, _)
RunCaller(S, prog) ==
  IF prog = <<>> THEN S
  ELSE IF IsTask(Head(prog))
    THEN LET S1 == addTask(S, Head(prog))
         IN IF S1.allTasks # {} THEN RunCaller(S1, Tail(prog)) ELSE S1
  ELSE IF Head(prog).kind = "waitForCompletion"
    THEN waitForCompletion(S)
  ELSE S

RECURSIVE AfterAwait(_)
AfterAwait(prog) ==
  IF prog = <<>> THEN prog
  ELSE IF IsTask(Head(prog)) THEN AfterAwait(Tail(prog))
  ELSE Tail(prog)

\* the caller runs until its next await: addTask calls, then possibly
\* waitForCompletion
Caller ==
  /\ todo # <<>>
  /\ waiter # "awaiting"
  /\ Set(RunCaller(St, todo))
  /\ todo' = AfterAwait(todo)
  /\ UNCHANGED <<faults, mergeVars, installVars, planVars, remoteVars>>

Outcome(ok) ==
  /\ ok \in BOOLEAN
  /\ ~ok => faults > 0
  /\ faults' = IF ok THEN faults ELSE faults - 1

\* getDfsUrl settles for the runDfsDownload call of coroutine t
UrlResolved(t, ok) ==
  /\ exec[t].pc = "url"
  /\ Outcome(ok)
  /\ IF ok
       THEN Set(Issue([St EXCEPT !.exec[t].pc = "ipc"], t, exec[t].cur,
                      exec[t].mode, exec[t].via))
       ELSE Set(DownloadSettled(St, t, FALSE))
  /\ UNCHANGED <<todo, mergeVars, installVars, planVars, remoteVars>>

\* the backend answers the InstallFile operation of coroutine t
IpcReturned(t, ok) ==
  /\ exec[t].pc = "ipc"
  /\ Outcome(ok)
  /\ Set(DownloadSettled(St, t, ok))
  /\ UNCHANGED <<todo, mergeVars, installVars, planVars, remoteVars>>

\* the CDN url of the merged range settles
MergedUrlResolved(t, ok) ==
  /\ exec[t].pc = "murl"
  /\ Outcome(ok)
  /\ IF ok
       THEN Set(IssueChunks([St EXCEPT !.exec[t].pc = "mipc"], t, tasks[t].members))
       ELSE Set(MergedGroupThrew(St, t))
  /\ UNCHANGED <<todo, mergeVars, installVars, planVars, remoteVars>>

\* the backend answers the InstallMultichunkStream operation with per-chunk results
MergedIpcReturned(t, res) ==
  /\ exec[t].pc = "mipc"
  /\ Outcome(TRUE)
  /\ LET ms == tasks[t].members
         S1 == ProcessResults(St, t, ms, res, 1)
         failedFiles == FailedFiles(ms, res, 1)
     IN IF Len(failedFiles) > 0
          THEN Set(FallbackToIndividualDownloadBegin(S1, t, failedFiles))
          ELSE Set(MergedGroupReturned(S1, t))
  /\ UNCHANGED <<todo, mergeVars, installVars, planVars, remoteVars>>

\* the InstallMultichunkStream operation fails as a whole
MergedIpcThrew(t) ==
  /\ exec[t].pc = "mipc"
  /\ Outcome(FALSE)
  /\ Set(MergedGroupThrew(St, t))
  /\ UNCHANGED <<todo, mergeVars, installVars, planVars, remoteVars>>

ChunkResults(t) == [1..Len(tasks[t].members) -> {"Ok", "Err", "Absent"}]

Next ==
  \/ Caller
  \/ \E t \in DOMAIN tasks, ok \in BOOLEAN : UrlResolved(t, ok)
  \/ \E t \in DOMAIN tasks, ok \in BOOLEAN : IpcReturned(t, ok)
  \/ \E t \in DOMAIN tasks, ok \in BOOLEAN : MergedUrlResolved(t, ok)
  \/ \E t \in DOMAIN tasks : \E res \in ChunkResults(t) : MergedIpcReturned(t, res)
  \/ \E t \in DOMAIN tasks : MergedIpcThrew(t)

Spec == Init /\ [][Next]_vars

\* the same manager under workloads that saturate the queues
InitSlots ==
  (\E w \in SlotWorkloads : InitManager(w)) /\ MergeIdle /\ InstallIdle /\ PlanIdle /\ RemoteIdle

SpecSlots == InitSlots /\ [][Next]_vars

\* failures injected into a run checked for progress
LiveFaults == 3

\* a task that can fail for good next to one that waits for it; a merged
\* group that fills the last large slot and whose fallback tasks queue up
LiveWorkloads ==
  { [WorkloadTwoWaits EXCEPT !.faults = LiveFaults],
    [WorkloadMerged EXCEPT !.faults = LiveFaults],
    [WorkloadLargeSlots EXCEPT !.faults = 1] }

\* the ids a task can get: the longest workload and its fallback tasks
TaskIds == 1..6

\* the execute call of task t, or an await inside it, returns or throws
ExecuteSettles(t) ==
  /\ t \in DOMAIN tasks
  /\ \/ \E ok \in BOOLEAN : UrlResolved(t, ok)
     \/ \E ok \in BOOLEAN : IpcReturned(t, ok)
     \/ \E ok \in BOOLEAN : MergedUrlResolved(t, ok)
     \/ \E res \in ChunkResults(t) : MergedIpcReturned(t, res)
     \/ MergedIpcThrew(t)

InitLive ==
  /\ \E w \in LiveWorkloads : InitManager(w)
  /\ MergeIdle /\ InstallIdle /\ PlanIdle /\ RemoteIdle

\* the execute call of task t is at an await; ExecuteSettles(t) is enabled
\* exactly in these states, a successful outcome being always possible
AtAwait(t) == t \in DOMAIN exec /\ exec[t].pc \in {"url", "ipc", "murl", "mipc"}

\* the manager under the hypothesis that no execute call hangs: weak
\* fairness of ExecuteSettles(t) for every task, WF_vars(ExecuteSettles(t)),
\* with ENABLED ExecuteSettles(t) written as the state predicate AtAwait(t)
SpecLive ==
  /\ InitLive
  /\ [][Next]_vars
  /\ \A t \in TaskIds : []<>(~AtAwait(t)) \/ []<><<ExecuteSettles(t)>>_vars

\* one task for one file, in every combination of an embedded payload, an
\* attached lpatch, an embedded lpatch source, an attached patch and the
\* failed flag, run as a SingleFileTask or as a LocalFileTask
ModeChoices ==
  [emb : BOOLEAN, lpatch : BOOLEAN, lemb : BOOLEAN, patch : BOOLEAN, failed : BOOLEAN,
   asLocal : BOOLEAN]

ModeWorkload(c) ==
  [files |-> <<[Item("a", 100 * KiB, "h1",
                     IF c.patch THEN PatchInfo("o1", "h1", 25 * KiB) ELSE NoPatch,
                     IF c.lpatch THEN PatchInfo("e1", "h1", 25 * KiB) ELSE NoPatch)
                EXCEPT !.failed = c.failed]>>,
   local |-> (IF c.emb THEN {"h1"} ELSE {}) \cup (IF c.lemb THEN {"e1"} ELSE {}),
   ctor  |-> <<100 * KiB>>,
   faults |-> 1,
   todo  |-> <<IF c.asLocal THEN LocalFileTask(1) ELSE SingleFileTask(1, TRUE), WaitCall>>]

InitMode ==
  /\ \E w \in {ModeWorkload(c) : c \in ModeChoices} \cup {WorkloadMerged} : InitManager(w)
  /\ MergeIdle /\ InstallIdle /\ PlanIdle /\ RemoteIdle

SpecMode == InitMode /\ [][Next]_vars

----------------------------------------------------------------------------
(* The range merger (src/src/dfs.ts): mergeSmallFilesIntoGroups and helpers *)

MaxFiles == 3      \* length of the task list handed to the merger

MiB == 1024 * KiB

\* an entry of cache.index, and the result of a failed lookup
NoEntry == [present |-> FALSE, offset |-> 0, size |-> 0]
IndexEntry(offset, size) == [present |-> TRUE, offset |-> offset, size |-> size]

\* { ...f, dfsOffset: dfsFile?.offset || 0, dfsSize: dfsFile?.size || f.size }
WithPosition(f, cache) ==
  LET dfsFile == IF cache.present THEN cache.index[f.hash] ELSE NoEntry
  IN [dfsOffset |-> IF dfsFile.present /\ dfsFile.offset # 0 THEN dfsFile.offset ELSE 0,
      dfsSize |-> IF dfsFile.present /\ dfsFile.size # 0 THEN dfsFile.size ELSE f.size]
     @@ f

\* Array.prototype.sort((a, b) => a.dfsOffset - b.dfsOffset): stable
RECURSIVE InsertByOffset(_, _)
InsertByOffset(s, x) ==
  IF s = <<>> THEN <<x>>
  ELSE IF x.dfsOffset < Head(s).dfsOffset THEN <<x>> \o s
  ELSE <<Head(s)>> \o InsertByOffset(Tail(s), x)

RECURSIVE SortByOffset(_)
SortByOffset(s) ==
  IF s = <<>> THEN <<>>
  ELSE InsertByOffset(SortByOffset(SubSeq(s, 1, Len(s) - 1)), s[Len(s)])

\* files.reduce((sum, f) => sum + f.dfsSize, 0)
RECURSIVE SumDfsSize(_)
SumDfsSize(s) == IF s = <<>> THEN 0 ELSE Head(s).dfsSize + SumDfsSize(Tail(s))

\* the quotient num / den of two integers compared with 0.2; 0 / 0 is NaN,
\* and NaN <= 0.2 is false
RatioAtMostFifth(num, den) == den # 0 /\ 5 * num <= den

createSingleFileGroup(file) ==
  [files |-> <<file>>,
   mergedRange |-> <<file.dfsOffset, file.dfsOffset + file.dfsSize - 1>>,
   totalDownloadSize |-> file.dfsSize,
   totalEffectiveSize |-> file.dfsSize,
   wasteRatio |-> [num |-> 0, den |-> 1],
   gaps |-> <<>>]

RECURSIVE Gaps(_, _)
Gaps(fs, i) ==
  IF i >= Len(fs) THEN <<>>
  ELSE LET currentEnd == fs[i].dfsOffset + fs[i].dfsSize
           nextStart == fs[i + 1].dfsOffset
       IN (IF nextStart > currentEnd
             THEN <<[start |-> currentEnd, end |-> nextStart]>> ELSE <<>>)
          \o Gaps(fs, i + 1)

\* called with at least two files
createMergedGroup(fs) ==
  LET sorted == SortByOffset(fs)
      groupStart == sorted[1].dfsOffset
      groupEnd == sorted[Len(sorted)].dfsOffset + sorted[Len(sorted)].dfsSize
      totalDownloadSize == groupEnd - groupStart
      totalEffectiveSize == SumDfsSize(sorted)
  IN [files |-> sorted,
      mergedRange |-> <<groupStart, groupEnd - 1>>,
      totalDownloadSize |-> totalDownloadSize,
      totalEffectiveSize |-> totalEffectiveSize,
      wasteRatio |-> [num |-> totalDownloadSize - totalEffectiveSize,
                      den |-> totalDownloadSize],
      gaps |-> Gaps(sorted, 1)]

\* canMergeToGroup without the overlap test
canMergeToGroupOverlapping(group, newFile) ==
  IF group = <<>> THEN TRUE
  ELSE LET lastFile == group[Len(group)]
           groupStart == group[1].dfsOffset
           newEnd == newFile.dfsOffset + newFile.dfsSize
           totalSize == newEnd - groupStart
           effectiveSize == SumDfsSize(group) + newFile.dfsSize
       IN /\ totalSize <= 10 * MiB
          /\ RatioAtMostFifth(totalSize - effectiveSize, totalSize)

\* canMergeToGroup without the waste test
canMergeToGroupAnyWaste(group, newFile) ==
  IF group = <<>> THEN TRUE
  ELSE LET lastFile == group[Len(group)]
           groupStart == group[1].dfsOffset
           groupEnd == lastFile.dfsOffset + lastFile.dfsSize
           newEnd == newFile.dfsOffset + newFile.dfsSize
           totalSize == newEnd - groupStart
       IN IF newFile.dfsOffset < groupEnd THEN FALSE
          ELSE totalSize <= 10 * MiB

canMergeToGroup(group, newFile) ==
  IF group = <<>> THEN TRUE
  ELSE LET lastFile == group[Len(group)]
           groupStart == group[1].dfsOffset
           groupEnd == lastFile.dfsOffset + lastFile.dfsSize
           newEnd == newFile.dfsOffset + newFile.dfsSize
           totalSize == newEnd - groupStart
           effectiveSize == SumDfsSize(group) + newFile.dfsSize
       IN IF newFile.dfsOffset < groupEnd THEN FALSE
          ELSE /\ totalSize <= 10 * MiB
               /\ RatioAtMostFifth(totalSize - effectiveSize, totalSize)

\* variant: only groups of several files are kept
PushGroupMergedOnly(gs, currentGroup) ==
  IF Len(currentGroup) > 1 THEN Append(gs, createMergedGroup(currentGroup)) ELSE gs

\* the group under construction is closed
PushGroup(gs, currentGroup) ==
  IF Len(currentGroup) > 1 THEN Append(gs, createMergedGroup(currentGroup))
  ELSE IF Len(currentGroup) = 1 THEN Append(gs, createSingleFileGroup(currentGroup[1]))
  ELSE gs

\* the greedy loop over filesWithPositions
RECURSIVE GreedyMerge(_, _, _)
GreedyMerge(rest, currentGroup, gs) ==
  IF rest = <<>> THEN PushGroup(gs, currentGroup)
  ELSE IF canMergeToGroup(currentGroup, Head(rest))
         THEN GreedyMerge(Tail(rest), Append(currentGroup, Head(rest)), gs)
         ELSE GreedyMerge(Tail(rest), <<Head(rest)>>, PushGroup(gs, currentGroup))

mergeSmallFilesIntoGroups(fs, cache) ==
  IF ~cache.present
    THEN [i \in 1..Len(fs) |->
            createSingleFileGroup([dfsOffset |-> 0, dfsSize |-> fs[i].size] @@ fs[i])]
    ELSE LET smallFiles == SelectSeq(fs, LAMBDA f : f.size <= 500 * KiB)
             largeFiles == SelectSeq(fs, LAMBDA f : f.size > 500 * KiB)
             filesWithPositions ==
               SortByOffset([i \in 1..Len(smallFiles) |->
                               WithPosition(smallFiles[i], cache)])
         IN GreedyMerge(filesWithPositions, <<>>, <<>>)
            \o [i \in 1..Len(largeFiles) |->
                  createSingleFileGroup(WithPosition(largeFiles[i], cache))]

\* a task of the list and its entry in the remote index: sizes and offsets
\* around the limits of 500 KiB, 10 MiB and 20 %
FileChoice(size, entry) == [size |-> size, entry |-> entry]

FileChoices ==
  { FileChoice(4, IndexEntry(0, 4)),
    FileChoice(4, IndexEntry(6, 4)),
    FileChoice(4, IndexEntry(7, 4)),
    FileChoice(0, IndexEntry(5, 0)),
    FileChoice(4, IndexEntry(4, 10 * MiB - 4)),
    FileChoice(4, IndexEntry(4, 10 * MiB - 3)),
    FileChoice(4, IndexEntry(0, 0)),
    FileChoice(0, NoEntry),
    FileChoice(500 * KiB, NoEntry),
    FileChoice(500 * KiB, IndexEntry(500 * KiB, 4)),
    FileChoice(500 * KiB + 1, IndexEntry(4, 4)),
    FileChoice(500 * KiB + 1, NoEntry) }

WorkloadNone ==
  [files |-> <<>>, local |-> {}, ctor |-> <<>>, faults |-> 0, todo |-> <<>>]

InitMerge ==
  /\ InitManager(WorkloadNone)
  /\ InstallIdle
  /\ PlanIdle
  /\ RemoteIdle
  /\ \E n \in 0..MaxFiles : \E cs \in [1..n -> FileChoices] : \E present \in BOOLEAN :
       /\ mergeFiles = [i \in 1..n |-> [hash |-> i, size |-> cs[i].size]]
       /\ dfsIndexCache = IF present
                            THEN [present |-> TRUE, index |-> [i \in 1..n |-> cs[i].entry]]
                            ELSE [present |-> FALSE, index |-> <<>>]
  /\ groups = <<>>
  /\ mergePc = "input"
  /\ processed = [processedFiles |-> <<>>, mergedGroups |-> <<>>]

MergeSmallFiles ==
  /\ mergePc = "input"
  /\ groups' = mergeSmallFilesIntoGroups(mergeFiles, dfsIndexCache)
  /\ mergePc' = "done"
  /\ UNCHANGED <<mergeFiles, dfsIndexCache, processed, tmVars, installVars, planVars, remoteVars>>

NextMerge == MergeSmallFiles

SpecMerge == InitMerge /\ [][NextMerge]_vars

----------------------------------------------------------------------------
(* preprocessFiles (src/src/dfs.ts) *)

\* Array.prototype.sort((a, b) => b.size - a.size): stable
RECURSIVE InsertBySizeDesc(_, _)
InsertBySizeDesc(s, x) ==
  IF s = <<>> THEN <<x>>
  ELSE IF x.size > Head(s).size THEN <<x>> \o s
  ELSE <<Head(s)>> \o InsertBySizeDesc(Tail(s), x)

RECURSIVE SortBySizeDesc(_)
SortBySizeDesc(s) ==
  IF s = <<>> THEN <<>>
  ELSE InsertBySizeDesc(SortBySizeDesc(SubSeq(s, 1, Len(s) - 1)), s[Len(s)])

\* the partition of preprocessFiles if every mode could be merged
IsMergeableAny(mode) == mode \in {"Direct", "Patch", "Local", "HybridPatch"}

\* mode === 'direct' || mode === 'patch'
IsMergeable(mode) == mode \in {"Direct", "Patch"}

\* the VirtualMergedFile of the group at position index (from 0) of groups
VirtualMergedFile(group, index) ==
  [file_name |-> <<"__merged_group__", index>>,
   size |-> group.totalDownloadSize,
   isMergedGroup |-> TRUE,
   mergedInfo |-> group,
   fallbackFiles |-> group.files,
   downloaded |-> 0, running |-> FALSE, failed |-> FALSE]
  @@ group.files[1]

IsVirtualMergedFile(f) == "isMergedGroup" \in DOMAIN f

\* variant: the three sorted lists one after the other
InterleaveInSeries(nonMergeable, single, merged) == nonMergeable \o single \o merged

\* the while loop that interleaves the three sorted lists
RECURSIVE Interleave(_, _, _)
Interleave(nonMergeable, single, merged) ==
  IF nonMergeable = <<>> /\ single = <<>> /\ merged = <<>> THEN <<>>
  ELSE (IF nonMergeable # <<>> THEN <<Head(nonMergeable)>> ELSE <<>>)
       \o (IF single # <<>> THEN <<Head(single)>> ELSE <<>>)
       \o (IF merged # <<>> THEN <<Head(merged)>> ELSE <<>>)
       \o Interleave(IF nonMergeable # <<>> THEN Tail(nonMergeable) ELSE <<>>,
                     IF single # <<>> THEN Tail(single) ELSE <<>>,
                     IF merged # <<>> THEN Tail(merged) ELSE <<>>)

preprocessFiles(fs, cache, loc) ==
  LET mergeableFiles ==
        SelectSeq(fs, LAMBDA f : IsMergeable(getFileInstallMode(f, loc)))
      nonMergeableFiles ==
        SelectSeq(fs, LAMBDA f : ~IsMergeable(getFileInstallMode(f, loc)))
      gs == mergeSmallFilesIntoGroups(mergeableFiles, cache)
      singleIdx == SelectSeq([k \in 1..Len(gs) |-> k], LAMBDA k : Len(gs[k].files) = 1)
      mergedIdx == SelectSeq([k \in 1..Len(gs) |-> k], LAMBDA k : Len(gs[k].files) # 1)
      singleFiles == [j \in 1..Len(singleIdx) |-> gs[singleIdx[j]].files[1]]
      virtualMergedFiles ==
        [j \in 1..Len(mergedIdx) |-> VirtualMergedFile(gs[mergedIdx[j]], mergedIdx[j] - 1)]
  IN [processedFiles |->
        Interleave(SortBySizeDesc(nonMergeableFiles), SortBySizeDesc(singleFiles),
                   SortBySizeDesc(virtualMergedFiles)),
      mergedGroups |->
        [j \in 1..Len(mergedIdx) |->
           [name |-> <<"__merged_group__", mergedIdx[j] - 1>>, group |-> gs[mergedIdx[j]]]]]

\* the tasks handed to preprocessFiles: task i has file name i and target hash
\* i, its patches come from hash 10 + i; the remote index packs the payloads
\* next to each other, every second one short
PackedSize(i) == IF i % 2 = 1 THEN 100 ELSE 4

RECURSIVE PackedOffset(_)
PackedOffset(i) == IF i <= 1 THEN 0 ELSE PackedOffset(i - 1) + PackedSize(i - 1)

\* kind: which of the embedded payload, the lpatch and the patch the task has,
\* and whether it is marked failed; big: a file of more than 500 KiB
TaskChoices ==
  [emb : BOOLEAN, lpatch : BOOLEAN, patch : BOOLEAN, failed : BOOLEAN, big : BOOLEAN]

PreprocessKinds ==
  { c \in TaskChoices : (c.failed => c.emb /\ ~c.lpatch /\ ~c.patch /\ ~c.big)
                        /\ (c.big => ~c.lpatch) }

PreprocessTask(i, c) ==
  [Item(i, IF c.big THEN 600 * KiB ELSE PackedSize(i), i,
        IF c.patch THEN PatchInfo(10 + i, i, 2) ELSE NoPatch,
        IF c.lpatch THEN PatchInfo(20 + i, i, 2) ELSE NoPatch)
   EXCEPT !.failed = c.failed]

PlainKind ==
  [emb |-> FALSE, lpatch |-> FALSE, patch |-> FALSE, failed |-> FALSE, big |-> FALSE]

\* lists of six tasks: small plain ones, but for an embedded one (e) and a
\* big one (b) if any; an embedded task in the middle leaves its payload as
\* a gap that splits the others into two groups
LongKindLists ==
  { [i \in 1..6 |-> IF i = e THEN [PlainKind EXCEPT !.emb = TRUE]
                    ELSE IF i = b THEN [PlainKind EXCEPT !.big = TRUE]
                    ELSE PlainKind] : e \in 1..6, b \in 0..6 }

KindLists == UNION {[1..n -> PreprocessKinds] : n \in 0..MaxFiles} \cup LongKindLists

InitPreprocess ==
  /\ \E cs \in KindLists : \E present \in BOOLEAN :
     LET n == Len(cs) IN
       /\ InitManager([files |-> <<>>,
                       local |-> {i \in 1..n : cs[i].emb} \cup {20 + i : i \in 1..n},
                       ctor |-> <<>>, faults |-> 0, todo |-> <<>>])
       /\ mergeFiles = [i \in 1..n |-> PreprocessTask(i, cs[i])]
       /\ dfsIndexCache =
            IF present
              THEN [present |-> TRUE,
                    index |-> [i \in 1..n |-> IndexEntry(PackedOffset(i), PackedSize(i))]]
              ELSE [present |-> FALSE, index |-> <<>>]
  /\ InstallIdle
  /\ PlanIdle
  /\ RemoteIdle
  /\ groups = <<>>
  /\ mergePc = "input"
  /\ processed = [processedFiles |-> <<>>, mergedGroups |-> <<>>]

PreprocessFiles ==
  /\ mergePc = "input"
  /\ processed' = preprocessFiles(mergeFiles, dfsIndexCache, local)
  /\ mergePc' = "done"
  /\ UNCHANGED <<mergeFiles, dfsIndexCache, groups, tmVars, installVars, planVars, remoteVars>>

NextPreprocess == PreprocessFiles

SpecPreprocess == InitPreprocess /\ [][NextPreprocess]_vars

----------------------------------------------------------------------------
(* install() / runInstall() / finishInstall() (src/src/App.vue), from the   *)
(* point where diff_files has been computed                                 *)

InstallFaults == 3     \* failures injected into a run of runInstall

MapLimitConcurrency == 6
InstallAttempts == 3

ISt == [S |-> St, run |-> run, step |-> step, limiter |-> limiter,
        finalOps |-> finalOps]

SetInstall(I) ==
  /\ Set(I.S)
  /\ run' = I.run
  /\ step' = I.step
  /\ limiter' = I.limiter
  /\ finalOps' = I.finalOps

\* the iteratee if its first call of runDfsDownload ignored the online flag
IterateeStartOffline(I, t) ==
  LET S1 == [I.S EXCEPT !.exec = Append(@, [IdleExec EXCEPT !.type = "install",
                                                            !.attempt = 1])]
  IN [I EXCEPT !.S = RunDfsDownloadBegin(S1, t, t, FALSE, FALSE, "runInstall")]

\* the iteratee is called for item t: hasError = false, first iteration
IterateeStart(I, t) ==
  LET S1 == [I.S EXCEPT !.exec = Append(@, [IdleExec EXCEPT !.type = "install",
                                                            !.attempt = 1])]
  IN [I EXCEPT !.S = RunDfsDownloadBegin(S1, t, t, FALSE, config.online, "runInstall")]

\* finishInstall: the backend calls it awaits, in order
FinishSteps(cfg) ==
  <<"getLnkPath">>
  \o (IF cfg.createLnk /\ ~cfg.isUpdate THEN <<"lnkDesktop">> ELSE <<>>)
  \o (IF ~cfg.isUpdate THEN <<"lnkProgram">> ELSE <<>>)
  \o (IF ~cfg.isUpdate \/ cfg.regSource
        THEN <<"uninstaller", "registry", "lnkUninstall">> ELSE <<>>)

\* runInstall after mapLimit: ipcRmList, ipcInstallRuntime, finishInstall
AfterDownloadSteps(cfg) ==
  (IF cfg.deletes THEN <<"rm">> ELSE <<>>)
  \o (IF cfg.runtimes THEN <<"runtime">> ELSE <<>>)
  \o FinishSteps(cfg)

\* a backend call whose failure is caught and logged
Tolerated(op) == op \notin {"getLnkPath", "lnkDesktop"}

\* runInstall goes on to its next backend call, or returns
Proceed(I) ==
  IF I.run.rest = <<>>
    THEN [I EXCEPT !.run.pc = "finished",
                   !.step = IF I.run.stepAfter = 0 THEN I.step ELSE I.run.stepAfter]
    ELSE [I EXCEPT !.run.pc = Head(I.run.rest),
                   !.run.rest = Tail(I.run.rest),
                   !.finalOps = Append(I.finalOps, Head(I.run.rest))]

\* runInstall throws: the catch of install() shows the error
RunInstallThrew(I) == [I EXCEPT !.run.pc = "errorDialog", !.run.rest = <<>>]

\* the callback of mapLimit is called (once)
MapLimitCallback(I, err) ==
  IF I.limiter.settled # "pending" THEN I
  ELSE IF err
    THEN RunInstallThrew([I EXCEPT !.limiter.settled = "rejected"])
    ELSE Proceed([I EXCEPT !.limiter.settled = "resolved",
                           !.run.rest = AfterDownloadSteps(config),
                           !.run.stepAfter = 3])

\* replenish of mapLimit: start items while fewer than 6 are running
RECURSIVE Replenish(_)
Replenish(I) ==
  IF I.limiter.running < MapLimitConcurrency /\ ~I.limiter.done
    THEN IF I.limiter.next > Len(I.S.files)
           THEN LET I1 == [I EXCEPT !.limiter.done = TRUE]
                IN IF I1.limiter.running <= 0 THEN MapLimitCallback(I1, FALSE) ELSE I1
           ELSE LET t == I.limiter.next
                    I1 == IterateeStart([I EXCEPT !.limiter.running = @ + 1,
                                                  !.limiter.next = @ + 1], t)
                IN IF I1.limiter.running > 0 THEN Replenish(I1) ELSE I1
    ELSE I

\* iterateeCallback if an error counted as a completion
IterateeCallbackLenient(I, err) ==
  LET I1 == [I EXCEPT !.limiter.running = @ - 1]
  IN IF I1.limiter.done /\ I1.limiter.running <= 0
       THEN MapLimitCallback(I1, FALSE)
     ELSE Replenish(I1)

\* iterateeCallback of mapLimit: the iteratee of an item has settled
IterateeCallback(I, err) ==
  LET I1 == [I EXCEPT !.limiter.running = @ - 1]
  IN IF err
       THEN MapLimitCallback([I1 EXCEPT !.limiter.done = TRUE], TRUE)
     ELSE IF I1.limiter.done /\ I1.limiter.running <= 0
       THEN MapLimitCallback(I1, FALSE)
     ELSE Replenish(I1)

\* runDfsDownload threw in iteration i = attempt - 1 of the iteratee
AttemptFailed(I, t) ==
  LET S1 == RunDfsDownloadEnd(I.S, t, FALSE)
      hasError == TRUE
  IN IF S1.exec[t].attempt = InstallAttempts
       THEN [I EXCEPT !.S = [S1 EXCEPT !.exec[t].pc = "dialog"]]
       ELSE [I EXCEPT !.S = RunDfsDownloadBegin(
                               [S1 EXCEPT !.exec[t].attempt = @ + 1], t, t,
                               hasError, hasError \/ config.online, "runInstall")]

\* runDfsDownload returned: break, the iteratee resolves
AttemptSucceeded(I, t) ==
  LET S1 == RunDfsDownloadEnd(I.S, t, TRUE)
  IN IterateeCallback([I EXCEPT !.S = [S1 EXCEPT !.exec[t].pc = "done"]], FALSE)

\* a diff task: its hash names an embedded payload or not, its lpatch is
\* absent, from an embedded payload or from a payload that is not embedded,
\* its patch is present or not
InstallLocal == {"emb", "lfrom"}

DiffItem(emb, lp, hasPatch) ==
  Item("f", 100 * KiB, IF emb THEN "emb" ELSE "new",
       IF hasPatch THEN PatchInfo("old", "new", 25 * KiB) ELSE NoPatch,
       CASE lp = "embedded" -> PatchInfo("lfrom", "new", 20 * KiB)
         [] lp = "remote" -> PatchInfo("lold", "new", 20 * KiB)
         [] OTHER -> NoPatch)

DiffItems ==
  { DiffItem(emb, lp, hasPatch) :
      emb \in BOOLEAN, lp \in {"none", "embedded", "remote"}, hasPatch \in BOOLEAN }

PairItems ==
  { DiffItem(FALSE, "none", FALSE), DiffItem(FALSE, "none", TRUE),
    DiffItem(TRUE, "none", FALSE) }

NInstallItems == MapLimitConcurrency + 1

\* no diff, one task of any kind, two tasks, more tasks than mapLimit runs at once
DiffLists ==
  {<<>>} \cup { <<a>> : a \in DiffItems }
         \cup { <<a, b>> : a \in PairItems, b \in PairItems }
         \cup { [i \in 1..NInstallItems |-> DiffItem(TRUE, "none", FALSE)] }

InstallConfig(online, deletes, runtimes, createLnk, isUpdate, regSource) ==
  [online |-> online, deletes |-> deletes, runtimes |-> runtimes,
   createLnk |-> createLnk, isUpdate |-> isUpdate, regSource |-> regSource]

\* a fresh install, an update, an update of an installation found in the registry
Configs ==
  { InstallConfig(online, TRUE, TRUE, TRUE, FALSE, FALSE) : online \in BOOLEAN }
  \cup { InstallConfig(online, TRUE, FALSE, TRUE, TRUE, FALSE) : online \in BOOLEAN }
  \cup { InstallConfig(online, FALSE, FALSE, FALSE, TRUE, TRUE) : online \in BOOLEAN }

InitInstall ==
  /\ \E fs \in DiffLists :
       InitManager([files |-> fs, local |-> InstallLocal, ctor |-> <<>>,
                    faults |-> IF Len(fs) > 2 THEN 0 ELSE InstallFaults,
                    todo |-> <<>>])
  /\ MergeIdle
  /\ PlanIdle
  /\ RemoteIdle
  /\ config \in Configs
  /\ run = [pc |-> "ready", rest |-> <<>>, stepAfter |-> 0]
  /\ step = 2
  /\ limiter = [next |-> 1, running |-> 0, done |-> FALSE, settled |-> "pending"]
  /\ finalOps = <<>>

\* runInstall with diff_files computed: the empty-diff shortcut, or mapLimit
AfterDiff(I) ==
  IF Len(I.S.files) = 0
    THEN Proceed([I EXCEPT !.step = 4, !.run.rest = FinishSteps(config)])
    ELSE Replenish([I EXCEPT !.run.pc = "mapLimit"])

StartDownload ==
  /\ run.pc = "ready"
  /\ SetInstall(AfterDiff(ISt))
  /\ UNCHANGED <<todo, faults, config, mergeVars, planVars, remoteVars>>

\* getDfsUrl settles for the runDfsDownload call of the iteratee of item t
InstallUrlResolved(t, ok) ==
  /\ exec[t].type = "install"
  /\ exec[t].pc = "url"
  /\ Outcome(ok)
  /\ IF ok
       THEN Set(Issue([St EXCEPT !.exec[t].pc = "ipc"], t, t, exec[t].mode,
                      exec[t].via))
            /\ UNCHANGED <<run, step, limiter, finalOps>>
       ELSE SetInstall(AttemptFailed(ISt, t))
  /\ UNCHANGED <<todo, config, mergeVars, planVars, remoteVars>>

\* the backend answers the InstallFile operation of item t
InstallIpcReturned(t, ok) ==
  /\ exec[t].type = "install"
  /\ exec[t].pc = "ipc"
  /\ Outcome(ok)
  /\ IF ok THEN SetInstall(AttemptSucceeded(ISt, t))
           ELSE SetInstall(AttemptFailed(ISt, t))
  /\ UNCHANGED <<todo, config, mergeVars, planVars, remoteVars>>

\* the error dialog of the third failure is closed: the iteratee throws
IterateeErrorShown(t) ==
  /\ exec[t].type = "install"
  /\ exec[t].pc = "dialog"
  /\ SetInstall(IterateeCallback([ISt EXCEPT !.S.exec[t].pc = "thrown"], TRUE))
  /\ UNCHANGED <<todo, faults, config, mergeVars, planVars, remoteVars>>

\* the backend call runInstall / finishInstall awaits has settled
FinalStepReturned(ok) ==
  /\ run.pc \in Range(AfterDownloadSteps(config))
  /\ Outcome(ok)
  /\ IF ok \/ Tolerated(run.pc)
       THEN SetInstall(Proceed(ISt))
       ELSE SetInstall(RunInstallThrew(ISt))
  /\ UNCHANGED <<todo, config, mergeVars, planVars, remoteVars>>

\* the catch of install(): error dialog and insight sent, back to step 1
InstallErrorShown ==
  /\ run.pc = "errorDialog"
  /\ SetInstall([ISt EXCEPT !.run.pc = "aborted", !.step = 1])
  /\ UNCHANGED <<todo, faults, config, mergeVars, planVars, remoteVars>>

NextInstall ==
  \/ StartDownload
  \/ \E t \in DOMAIN exec : \E ok \in BOOLEAN : InstallUrlResolved(t, ok)
  \/ \E t \in DOMAIN exec : \E ok \in BOOLEAN : InstallIpcReturned(t, ok)
  \/ \E t \in DOMAIN exec : IterateeErrorShown(t)
  \/ \E ok \in BOOLEAN : FinalStepReturned(ok)
  \/ InstallErrorShown

SpecInstall == InitInstall /\ [][NextInstall]_vars

----------------------------------------------------------------------------
(* runInstall (src/src/App.vue) from the choice of the hash algorithm to    *)
(* the diff, and the install directory the backend works on                 *)

RunFaults == 1     \* failures injected into a run that starts at the manifest

\* a relative path: its case-folded form with forward slashes and no leading
\* separator, whether it has upper-case letters, a leading separator,
\* backslashes as separators
FileName(base, cased, lead, back) ==
  [base |-> base, cased |-> cased, lead |-> lead, back |-> back]

\* a comparison that keeps the case
keepCase(n) == n

toLowerCase(n) == [n EXCEPT !.cased = FALSE]

\* s.replace(/\\/g, '/') without the cut of the leading slash
strip_no_slash(n) == [n EXCEPT !.back = FALSE]

\* s.replace(/\\/g, '/'), then the leading slash is cut
strip_first_slash(n) == [n EXCEPT !.back = FALSE, !.lead = FALSE]

\* the hashes of a content under the algorithms a manifest entry carries;
\* an algorithm the entry lacks is <<>> (undefined)
HashInfo(content, algs) ==
  [md5 |-> IF "md5" \in algs THEN <<"md5", content>> ELSE <<>>,
   xxh |-> IF "xxh" \in algs THEN <<"xxh", content>> ELSE <<>>]

\* item[hashKey]
HashOf(h, key) == IF key = "md5" THEN h.md5 ELSE h.xxh

HashedEntry(name, size, content, algs) ==
  [file_name |-> name, size |-> size] @@ HashInfo(content, algs)

PatchEntry(from, to, size, algs) ==
  [from |-> HashInfo(from, algs), to |-> HashInfo(to, algs), size |-> size]

\* the choice if one entry with the hash were enough
ChooseHashKeySome(meta) ==
  IF \E i \in DOMAIN meta.hashed : meta.hashed[i].md5 # <<>> THEN "md5"
  ELSE IF \E i \in DOMAIN meta.hashed : meta.hashed[i].xxh # <<>> THEN "xxh"
  ELSE ""

\* latest_meta.hashed.every((e) => e.md5) / every((e) => e.xxh); "" if neither
ChooseHashKey(meta) ==
  IF \A i \in DOMAIN meta.hashed : meta.hashed[i].md5 # <<>> THEN "md5"
  ELSE IF \A i \in DOMAIN meta.hashed : meta.hashed[i].xxh # <<>> THEN "xxh"
  ELSE ""

\* a file of the install directory
NoFile == [exists |-> FALSE, content |-> "-", cased |-> FALSE, locked |-> FALSE,
           writes |-> 0]
DiskFile(content, cased, locked) ==
  [exists |-> TRUE, content |-> content, cased |-> cased, locked |-> locked,
   writes |-> 0]

\* deep_readdir_with_metadata, and the removal of the install path from the
\* names it returns: one entry per listed file that exists, with its hash
\* under the chosen algorithm
RECURSIVE ScanLocal(_, _, _)
ScanLocal(d, fileList, key) ==
  IF fileList = <<>> THEN <<>>
  ELSE LET n == Head(fileList)
           f == IF n.base \in DOMAIN d THEN d[n.base] ELSE NoFile
       IN (IF f.exists
             THEN <<[file_name |-> FileName(n.base, f.cased, TRUE, TRUE),
                     hash |-> <<key, f.content>>,
                     unwritable |-> f.locked]>>
             ELSE <<>>)
          \o ScanLocal(d, Tail(fileList), key)

\* Array.prototype.find: the first element that satisfies Test, as a
\* sequence of at most one element
FindFirst(seq, Test(_)) ==
  LET hits == SelectSeq(seq, Test)
  IN IF hits = <<>> THEN <<>> ELSE <<Head(hits)>>

\* the body of the loop over latest_meta.hashed: the DiffTask of item, if any
DiffTaskOf(item, meta, lmeta, key, embedded) ==
  LET found == FindFirst(lmeta, LAMBDA e :
                 strip_first_slash(toLowerCase(e.file_name))
                   = strip_first_slash(toLowerCase(item.file_name)))
      localHash == IF found = <<>> THEN <<>> ELSE found[1].hash
      patch == FindFirst(meta.patches, LAMBDA e :
                 HashOf(e.from, key) = localHash
                 /\ HashOf(e.to, key) = HashOf(item, key))
      lpatch == FindFirst(meta.patches, LAMBDA e : HashOf(e.from, key) \in embedded)
      AsPatchInfo(ps) ==
        IF ps = <<>> THEN NoPatch
        ELSE PatchInfo(HashOf(ps[1].from, key), HashOf(ps[1].to, key), ps[1].size)
  IN IF found = <<>> \/ found[1].hash # HashOf(item, key)
       THEN <<[old_hash |-> localHash,
               unwritable |-> IF found = <<>> THEN FALSE ELSE found[1].unwritable]
              @@ Item(item.file_name, item.size, HashOf(item, key),
                      AsPatchInfo(patch), AsPatchInfo(lpatch))>>
       ELSE <<>>

RECURSIVE DiffFiles(_, _, _, _, _)
DiffFiles(hashed, meta, lmeta, key, embedded) ==
  IF hashed = <<>> THEN <<>>
  ELSE DiffTaskOf(Head(hashed), meta, lmeta, key, embedded)
       \o DiffFiles(Tail(hashed), meta, lmeta, key, embedded)

\* the content the install operation of mode m for item writes to its
\* temporary file, given the install directory d
Produced(item, m, d) ==
  CASE m = "Patch" ->
         IF d[item.file_name.base].exists
            /\ <<item.hash[1], d[item.file_name.base].content>> = item.patch.from
           THEN item.patch.to ELSE <<item.hash[1], "garbage">>
    [] m = "HybridPatch" -> item.lpatch.to
    [] OTHER -> item.hash

\* the verifier accepts the temporary file and the target can be replaced
CanInstall(item, m, d) ==
  Produced(item, m, d) = item.hash /\ ~d[item.file_name.base].locked

\* the temporary file replaces the target
Replaced(d, item) ==
  [d EXCEPT ![item.file_name.base] =
     [exists |-> TRUE, content |-> item.hash[2], cased |-> item.file_name.cased,
      locked |-> FALSE, writes |-> @.writes + 1]]

BothAlgs == {"md5", "xxh"}

AppName(cased) == FileName("app.exe", cased, FALSE, FALSE)
DataName == FileName("data/assets.dat", FALSE, FALSE, FALSE)

Manifest(hashed, patches, deletes) ==
  [hashed |-> hashed, patches |-> patches, deletes |-> deletes]

\* manifests of one or two entries that carry both hashes, with no patch, the
\* patch from the installed version, or also a patch from a version that may
\* be embedded in the installer
PatchLists ==
  { <<>>,
    <<PatchEntry("v1", "v2", 10 * KiB, BothAlgs)>>,
    <<PatchEntry("e1", "d2", 5 * KiB, BothAlgs), PatchEntry("v1", "v2", 10 * KiB, BothAlgs)>> }

DeleteLists == { <<>>, <<FileName("readme.txt", FALSE, FALSE, FALSE)>> }

AppFiles ==
  { NoFile, DiskFile("v2", TRUE, FALSE), DiskFile("v1", FALSE, FALSE),
    DiskFile("v1", FALSE, TRUE), DiskFile("x", FALSE, FALSE) }

DataFiles == { NoFile, DiskFile("d2", FALSE, FALSE) }

EmbeddedSets ==
  { {}, {<<"md5", "v2">>, <<"xxh", "v2">>}, {<<"md5", "e1">>, <<"xxh", "e1">>} }

Disk(app, data) == [b \in {"app.exe", "data/assets.dat"} |->
                      IF b = "app.exe" THEN app ELSE data]

UniformRuns ==
  { [meta |-> Manifest(<<HashedEntry(AppName(cased), 100 * KiB, "v2", BothAlgs)>>, ps, ds),
     disk |-> Disk(app, NoFile), embedded |-> emb] :
      cased \in BOOLEAN, ps \in PatchLists, ds \in DeleteLists, app \in AppFiles,
      emb \in EmbeddedSets }
  \cup
  { [meta |-> Manifest(<<HashedEntry(AppName(FALSE), 100 * KiB, "v2", BothAlgs),
                         HashedEntry(DataName, 50 * KiB, "d2", BothAlgs)>>, ps, ds),
     disk |-> Disk(app, data), embedded |-> emb] :
      ps \in PatchLists, ds \in DeleteLists, app \in AppFiles, data \in DataFiles,
      emb \in EmbeddedSets }

\* manifests whose entries carry one algorithm, different ones, or none
AlgRuns ==
  { [meta |-> Manifest(<<HashedEntry(AppName(FALSE), 100 * KiB, "v2", a1),
                         HashedEntry(DataName, 50 * KiB, "d2", a2)>>,
                       <<PatchEntry("v1", "v2", 10 * KiB, a1)>>, <<>>),
     disk |-> Disk(DiskFile("v1", FALSE, FALSE), NoFile),
     embedded |-> {}] :
      a1 \in SUBSET BothAlgs, a2 \in SUBSET BothAlgs }

RunConfigs(deletes) ==
  { InstallConfig(online, deletes, FALSE, TRUE, FALSE, FALSE) : online \in BOOLEAN }
  \cup { InstallConfig(online, deletes, FALSE, TRUE, TRUE, FALSE) : online \in BOOLEAN }
  \cup { InstallConfig(online, deletes, FALSE, FALSE, TRUE, TRUE) : online \in BOOLEAN }

InitRun ==
  /\ \E r \in UniformRuns \cup AlgRuns :
       /\ InitManager([files |-> <<>>, local |-> r.embedded, ctor |-> <<>>,
                       faults |-> RunFaults, todo |-> <<>>])
       /\ latest_meta = r.meta
       /\ disk = r.disk
       /\ config \in RunConfigs(r.meta.deletes # <<>>)
  /\ MergeIdle
  /\ RemoteIdle
  /\ hashKey = ""
  /\ local_meta = <<>>
  /\ selection = SelectionIdle
  /\ multiInstall = MultiInstallIdle
  /\ AuxIdle
  /\ run = [pc |-> "hashKey", rest |-> <<>>, stepAfter |-> 0]
  /\ step = 2
  /\ limiter = [next |-> 1, running |-> 0, done |-> FALSE, settled |-> "pending"]
  /\ finalOps = <<>>

\* the hash algorithm of the run is chosen, the scan of the directory is asked
SelectHashKey ==
  /\ run.pc = "hashKey"
  /\ LET key == ChooseHashKey(latest_meta)
     IN IF key = ""
          THEN SetInstall(RunInstallThrew(ISt)) /\ UNCHANGED hashKey
          ELSE SetInstall([ISt EXCEPT !.run.pc = "scan"]) /\ hashKey' = key
  /\ UNCHANGED <<todo, faults, config, mergeVars, latest_meta, disk, local_meta, selection,
               multiInstall, auxVars, remoteVars>>

\* the scan has returned: the diff is computed and the downloads are started
ScanReturned(ok) ==
  /\ run.pc = "scan"
  /\ Outcome(ok)
  /\ IF ok
       THEN LET lmeta == ScanLocal(disk, [i \in DOMAIN latest_meta.hashed |->
                                            latest_meta.hashed[i].file_name], hashKey)
                diff == DiffFiles(latest_meta.hashed, latest_meta, lmeta, hashKey, local)
            IN /\ local_meta' = lmeta
               /\ SetInstall(AfterDiff([ISt EXCEPT !.S.files = diff,
                                                   !.S.hist = [f \in DOMAIN diff |-> <<>>]]))
       ELSE SetInstall(RunInstallThrew(ISt)) /\ UNCHANGED local_meta
  /\ UNCHANGED <<todo, config, mergeVars, latest_meta, disk, hashKey, selection, multiInstall,
                 auxVars,
                 remoteVars>>

\* getDfsUrl settles for an item of the run
RunUrlResolved(t, ok) ==
  /\ run.pc # "idle"
  /\ InstallUrlResolved(t, ok)

\* the backend answers the InstallFile operation of item t: it reports success
\* only if the verifier accepted what it wrote and the target could be replaced
RunIpcReturned(t, ok) ==
  /\ exec[t].type = "install"
  /\ exec[t].pc = "ipc"
  /\ IF CanInstall(files[t], exec[t].mode, disk)
       THEN Outcome(ok)
       ELSE ~ok /\ UNCHANGED faults
  /\ IF ok THEN SetInstall(AttemptSucceeded(ISt, t)) /\ disk' = Replaced(disk, files[t])
           ELSE SetInstall(AttemptFailed(ISt, t)) /\ UNCHANGED disk
  /\ UNCHANGED <<todo, config, mergeVars, latest_meta, hashKey, local_meta, selection,
               multiInstall, auxVars, remoteVars>>

NextRun ==
  \/ SelectHashKey
  \/ \E ok \in BOOLEAN : ScanReturned(ok)
  \/ \E t \in DOMAIN exec : \E ok \in BOOLEAN : RunUrlResolved(t, ok)
  \/ \E t \in DOMAIN exec : \E ok \in BOOLEAN : RunIpcReturned(t, ok)
  \/ \E t \in DOMAIN exec : IterateeErrorShown(t)
  \/ \E ok \in BOOLEAN : FinalStepReturned(ok)
  \/ InstallErrorShown

SpecRun == InitRun /\ [][NextRun]_vars

----------------------------------------------------------------------------
(* version_compare (src/src/utils/version.ts) and the choice of manifest   *)
(* at the start of runInstall (src/src/App.vue). A version string is the   *)
(* sequence of its characters.                                             *)

Digits == <<"0", "1", "2", "3", "4", "5", "6", "7", "8", "9">>

IsDigit(c) == \E d \in DOMAIN Digits : Digits[d] = c

DigitValue(c) == (CHOOSE d \in DOMAIN Digits : Digits[d] = c) - 1

\* a character that /[^.\d]/ matches
IsWord(c) == c # "." /\ ~IsDigit(c)

\* v.replace(/[_\-+]/g, '.')
DotSeparators(v) == [i \in DOMAIN v |-> IF v[i] \in {"_", "-", "+"} THEN "." ELSE v[i]]

\* v.replace(/([^.\d]+)/g, '.$1.')
RECURSIVE WrapWords(_, _)
WrapWords(v, i) ==
  IF i > Len(v) THEN <<>>
  ELSE LET c == v[i]
           opens == IsWord(c) /\ (i = 1 \/ ~IsWord(v[i - 1]))
           closes == IsWord(c) /\ (i = Len(v) \/ ~IsWord(v[i + 1]))
       IN (IF opens THEN <<".">> ELSE <<>>) \o <<c>>
            \o (IF closes THEN <<".">> ELSE <<>>) \o WrapWords(v, i + 1)

\* v.replace(/\.{2,}/g, '.')
RECURSIVE CollapseDots(_)
CollapseDots(v) ==
  IF Len(v) < 2 THEN v
  ELSE IF v[1] = "." /\ v[2] = "." THEN CollapseDots(Tail(v))
  ELSE <<v[1]>> \o CollapseDots(Tail(v))

\* v.split('.')
RECURSIVE SplitDots(_, _)
SplitDots(v, part) ==
  IF v = <<>> THEN <<part>>
  ELSE IF Head(v) = "." THEN <<part>> \o SplitDots(Tail(v), <<>>)
  ELSE SplitDots(Tail(v), Append(part, Head(v)))

\* _prepVersion; it is called with a string that is not empty, so that the
\* [-8] of an empty result is never returned
prepVersion(v) == SplitDots(CollapseDots(WrapWords(DotSeparators(v), 1)), <<>>)

\* the table vm, for the one-character keys
vm(c) ==
  CASE c = "a" -> 0 - 5
    [] c = "b" -> 0 - 4
    [] c = "#" -> 0 - 2
    [] c = "p" -> 1
    [] OTHER -> 0 - 7

\* v1[i], v2[i]: the character of the string at index i, "" for undefined
CharAt(v, i) == IF i <= Len(v) THEN v[i] ELSE ""

\* _numVersion
numVersion(c) ==
  IF c = "" THEN 0
  ELSE IF IsDigit(c) THEN DigitValue(c)
  ELSE vm(c)

\* v1a[i], v2a[i]: <<>> for undefined
PartAt(va, i) == IF i <= Len(va) THEN <<va[i]>> ELSE <<>>

\* the loop of version_compare, i counted from 1
RECURSIVE CompareLoop(_, _, _, _, _, _)
CompareLoop(v1, v2, v1a, v2a, i, x) ==
  IF i > x THEN 0
  ELSE IF PartAt(v1a, i) = PartAt(v2a, i) THEN CompareLoop(v1, v2, v1a, v2a, i + 1, x)
  ELSE LET n1 == numVersion(CharAt(v1, i))
           n2 == numVersion(CharAt(v2, i))
       IN IF n1 < n2 THEN 0 - 1
          ELSE IF n1 > n2 THEN 1
          ELSE CompareLoop(v1, v2, v1a, v2a, i + 1, x)

version_compare(v1, v2) ==
  IF v1 = <<>> /\ v2 = <<>> THEN 0
  ELSE IF v1 = <<>> THEN 0 - 1
  ELSE IF v2 = <<>> THEN 1
  ELSE CompareLoop(v1, v2, prepVersion(v1), prepVersion(v2), 1, Max(Len(v1), Len(v2)))

\* the tag names of the manifests: 1.0, 2.0, 9.0, 10.0
Tags ==
  { <<"1", ".", "0">>, <<"2", ".", "0">>, <<"9", ".", "0">>, <<"1", "0", ".", "0">> }

InitSelect ==
  /\ InitManager(WorkloadNone)
  /\ MergeIdle
  /\ RemoteIdle
  /\ latest_meta = [hashed |-> <<>>, patches |-> <<>>, deletes |-> <<>>]
  /\ disk = <<>>
  /\ hashKey = ""
  /\ local_meta = <<>>
  /\ multiInstall = MultiInstallIdle
  /\ AuxIdle
  \* embedded_index: no payload or two
  /\ \E embedded \in Tags \cup {NoTag} : \E remote \in Tags \cup {NoTag} :
     \E non_interactive \in BOOLEAN : \E silent \in BOOLEAN :
     \E update \in BOOLEAN : \E payloads \in {0, 2} :
       selection = [SelectionIdle EXCEPT !.enbedded_metadata = embedded,
                                         !.remote = remote,
                                         !.latest_meta = embedded,
                                         !.non_interactive = non_interactive,
                                         !.silent = silent,
                                         !.isUpdate = update,
                                         !.embedded_index = payloads]
  /\ config = [online |-> FALSE, deletes |-> FALSE, runtimes |-> FALSE,
               createLnk |-> FALSE, isUpdate |-> FALSE, regSource |-> FALSE]
  /\ run = [pc |-> "metadata", rest |-> <<>>, stepAfter |-> 0]
  /\ step = 2
  /\ limiter = [next |-> 1, running |-> 0, done |-> FALSE, settled |-> "pending"]
  /\ finalOps = <<>>

selectRest == <<tmVars, mergeVars, remoteVars, latest_meta, disk, hashKey, local_meta, multiInstall,
                auxVars,
                config, limiter, finalOps>>

\* latest_meta = online_meta
UseOnline(s) == [s EXCEPT !.latest_meta = s.online_meta, !.source = "online"]

\* the embedded manifest stays
UseLocal(s) == [s EXCEPT !.source = "embedded"]

\* getDfsMetadata has returned (ok) or thrown: the chain of conditions up to
\* the next await, which is the error dialog or the confirmation dialog
MetadataSettled(ok) ==
  /\ run.pc = "metadata"
  /\ LET s == [selection EXCEPT !.online_meta = IF ok THEN selection.remote ELSE NoTag]
         skips == s.isUpdate /\ s.embedded_index <= 0
     IN IF s.latest_meta = NoTag /\ s.online_meta = NoTag
          THEN /\ selection' = s
               /\ run' = [run EXCEPT !.pc = "noMeta"]
        ELSE IF s.latest_meta = NoTag
          THEN /\ selection' = UseOnline(s)
               /\ run' = [run EXCEPT !.pc = "selected"]
        ELSE IF /\ s.online_meta # NoTag
                /\ s.online_meta # s.latest_meta
                /\ version_compare(s.online_meta, s.latest_meta) > 0
          THEN IF s.non_interactive \/ s.silent
                 THEN /\ selection' = UseLocal(s)
                      /\ run' = [run EXCEPT !.pc = "selected"]
               ELSE IF skips
                 THEN /\ selection' = UseOnline(s)
                      /\ run' = [run EXCEPT !.pc = "selected"]
               ELSE /\ selection' = [s EXCEPT !.asked = TRUE]
                    /\ run' = [run EXCEPT !.pc = "confirm"]
        ELSE /\ selection' = UseLocal(s)
             /\ run' = [run EXCEPT !.pc = "selected"]
  /\ UNCHANGED <<selectRest, step>>

\* the confirmation dialog has been answered
ConfirmReturned(answer) ==
  /\ run.pc = "confirm"
  /\ selection' = IF answer
                    THEN UseOnline([selection EXCEPT !.confirmed = TRUE])
                    ELSE UseLocal(selection)
  /\ run' = [run EXCEPT !.pc = "selected"]
  /\ UNCHANGED <<selectRest, step>>

\* the error dialog has been closed: step.value = 1; return
NoMetaErrorShown ==
  /\ run.pc = "noMeta"
  /\ step' = 1
  /\ run' = [run EXCEPT !.pc = "returned"]
  /\ UNCHANGED <<selectRest, selection>>

NextSelect ==
  \/ \E ok \in BOOLEAN : MetadataSettled(ok)
  \/ \E answer \in BOOLEAN : ConfirmReturned(answer)
  \/ NoMetaErrorShown

SpecSelect == InitSelect /\ [][NextSelect]_vars

----------------------------------------------------------------------------
(* getRangeParams and createMultiInstall (src/src/api/installFile.ts). A    *)
(* chunk is the offset and size of its mode.source; a range string          *)
(* `${a}-${b}` is the pair <<a, b>>, as mergedRange is.                     *)

MaxChunks == 3

\* let total_start = Infinity
Infinity == 2147483647

\* the loop of getRangeParams
RECURSIVE RangeLoop(_, _)
RangeLoop(chunks, acc) ==
  IF chunks = <<>> THEN acc
  ELSE LET offset == Head(chunks).offset
           size == Head(chunks).size
       IN RangeLoop(Tail(chunks),
            [total_start |-> IF offset < acc.total_start THEN offset ELSE acc.total_start,
             total_end |-> IF offset + size > acc.total_end
                             THEN offset + size ELSE acc.total_end,
             ranges |-> Append(acc.ranges, <<offset, offset + size - 1>>),
             multipart |-> Append(acc.multipart, <<offset, offset + size - 1>>)])

getRangeParams(chunks) ==
  RangeLoop(chunks, [total_start |-> Infinity, total_end |-> 0 - 1,
                     ranges |-> <<>>, multipart |-> <<>>])

InstallMultipartStream(range, chunks) ==
  [type |-> "InstallMultipartStream", range |-> range, chunks |-> chunks]

InstallMultichunkStream(range, chunks) ==
  [type |-> "InstallMultichunkStream", range |-> range, chunks |-> chunks]

\* the chunks of a request: payloads of 1 or 4 bytes at offsets 0, 4 and 8
ChunkChoices == [offset : {0, 4, 8}, size : {1, 4}]

ChunkLists == UNION {[1..n -> ChunkChoices] : n \in 1..MaxChunks}

InitMulti ==
  /\ InitManager(WorkloadNone)
  /\ MergeIdle
  /\ InstallIdle
  /\ RemoteIdle
  /\ latest_meta = [hashed |-> <<>>, patches |-> <<>>, deletes |-> <<>>]
  /\ disk = <<>>
  /\ hashKey = ""
  /\ local_meta = <<>>
  /\ selection = SelectionIdle
  /\ \E chunks \in ChunkLists : \E multipart \in BOOLEAN :
       multiInstall = [MultiInstallIdle EXCEPT !.pc = "input", !.chunks = chunks,
                                               !.multipart = multipart]
  /\ AuxIdle

multiRest == <<tmVars, mergeVars, installVars, remoteVars, latest_meta, disk, hashKey,
               local_meta, selection, auxVars>>

\* createMultiInstall up to its await: const ranges = getRangeParams(chunks)
CreateMultiInstall ==
  /\ multiInstall.pc = "input"
  /\ multiInstall' = [multiInstall EXCEPT !.pc = "getUrl",
                                          !.ranges = getRangeParams(multiInstall.chunks)]
  /\ UNCHANGED multiRest

\* getUrl(ranges) has returned (ok) or thrown
GetUrlSettled(ok) ==
  /\ multiInstall.pc = "getUrl"
  /\ LET m == multiInstall
         ranges == m.ranges
     IN multiInstall' =
          IF ~ok THEN [m EXCEPT !.pc = "thrown"]
          ELSE IF m.multipart
            THEN [m EXCEPT !.pc = "built",
                           !.request = InstallMultipartStream(ranges.multipart, m.chunks)]
          ELSE [m EXCEPT !.pc = "built",
                         !.request = InstallMultichunkStream(
                                       <<ranges.total_start, ranges.total_end>>, m.chunks)]
  /\ UNCHANGED multiRest

NextMulti ==
  \/ CreateMultiInstall
  \/ \E ok \in BOOLEAN : GetUrlSettled(ok)

SpecMulti == InitMulti /\ [][NextMulti]_vars

----------------------------------------------------------------------------
(* The byte ranges of a DFS2 run (src/src/dfs.ts): collectDfs2Ranges lists *)
(* them for the session, getDfsUrl, runMergedGroupDownload and the fallback *)
(* downloads ask getDfs2Url for them.                                       *)

MaxRangeFiles == 3      \* length of the task list of a run

\* `${entry.offset}-${entry.offset + entry.size - 1}`
RangeOf(entry) == <<entry.offset, entry.offset + entry.size - 1>>

\* cache.index.get(`${p.from[hashKey]}_${p.to[hashKey]}`)
IndexGetPatch(cache, p) ==
  IF <<p.from, p.to>> \in DOMAIN cache.patches THEN cache.patches[<<p.from, p.to>>]
  ELSE NoEntry

\* what collectDfs2Ranges adds for one file; the code is the same for a file
\* of its own and for a member of a merged group
FileRanges(f, loc, cache) ==
  LET Found(e) == IF e.present THEN {RangeOf(e)} ELSE {}
      own == Found(cache.index[f.hash])
      installer == IF f.installer /\ cache.installer_end > 0
                     THEN {<<0, cache.installer_end - 1>>} ELSE {}
  IN IF HasLocalFile(f, loc) THEN {}
     ELSE (IF f.lpatch.present /\ HasLpatchFile(f, loc)
             THEN Found(IndexGetPatch(cache, f.lpatch)) \cup own
           ELSE IF f.patch.present
             THEN Found(IndexGetPatch(cache, f.patch)) \cup own
           ELSE own)
          \cup installer

\* variant: for a merged group only the merged range is listed
collectDfs2RangesMergedOnly(fs, loc, cache) ==
  LET processedFiles == preprocessFiles(fs, cache, loc).processedFiles
  IN UNION {IF IsVirtualMergedFile(processedFiles[k])
              THEN {processedFiles[k].mergedInfo.mergedRange}
              ELSE FileRanges(processedFiles[k], loc, cache) :
            k \in DOMAIN processedFiles}

\* collectDfs2Ranges for a dfs2 source whose index is loaded
collectDfs2Ranges(fs, loc, cache) ==
  LET processedFiles == preprocessFiles(fs, cache, loc).processedFiles
  IN UNION {IF IsVirtualMergedFile(processedFiles[k])
              THEN {processedFiles[k].mergedInfo.mergedRange}
                   \cup UNION {FileRanges(m, loc, cache) :
                               m \in Range(processedFiles[k].mergedInfo.files)}
              ELSE FileRanges(processedFiles[k], loc, cache) :
            k \in DOMAIN processedFiles}

\* getDfsUrl for a dfs2 source: the range it hands to getDfs2Url, none if it
\* throws 'No file in DFS2 index'
GetDfsUrlRange(cache, entry, installer) ==
  IF ~entry.present
    THEN IF installer THEN {<<0, cache.installer_end - 1>>} ELSE {}
    ELSE {RangeOf(entry)}

\* the range runDfsDownload asks a chunk URL for
RunDfsDownloadRanges(item, loc, cache, disable_patch, disable_local) ==
  LET mode == SelectMode(item, loc, disable_patch, disable_local)
  IN CASE mode = "Local" -> {}
       [] mode = "HybridPatch" ->
            GetDfsUrlRange(cache, IndexGetPatch(cache, item.lpatch), FALSE)
       [] mode = "Patch" ->
            GetDfsUrlRange(cache, IndexGetPatch(cache, item.patch), FALSE)
       [] OTHER -> GetDfsUrlRange(cache, cache.index[item.hash], item.installer)

\* the tasks of a run as the planner emits them (failed unset): with or
\* without an embedded payload, an lpatch whose source is embedded, a patch
RangeKinds ==
  {c \in TaskChoices : ~c.failed /\ ~c.big /\ ~(c.emb /\ c.lpatch)}

\* one task of the list may be special: its hash is missing from the index,
\* or it is the installer item (marked installer, not in the index)
SpecialChoices(n) ==
  {[at |-> 0, installer |-> FALSE]} \cup [at : 1..n, installer : BOOLEAN]

\* the remote index: file i at PackedOffset(i), its patch and its lpatch
\* behind the files if the package carries patches
RangeIndex(n, special, withPatches) ==
  [present |-> TRUE,
   index |-> [i \in 1..n |-> IF i = special.at THEN NoEntry
                             ELSE IndexEntry(PackedOffset(i), PackedSize(i))],
   patches |-> [k \in IF withPatches
                        THEN {<<10 + i, i>> : i \in 1..n} \cup {<<20 + i, i>> : i \in 1..n}
                        ELSE {} |->
                  IndexEntry(1000 * (k[1] \div 10) + 10 * k[2], 2)],
   installer_end |-> 64]

InitRanges ==
  /\ \E n \in 0..MaxRangeFiles : \E cs \in [1..n -> RangeKinds] :
     \E special \in SpecialChoices(n) : \E withPatches, present \in BOOLEAN :
       /\ InitManager([files |-> <<>>,
                       local |-> {i \in 1..n : cs[i].emb} \cup {20 + i : i \in 1..n},
                       ctor |-> <<>>, faults |-> 0, todo |-> <<>>])
       /\ mergeFiles = [i \in 1..n |->
                          [installer |-> special.at = i /\ special.installer]
                          @@ PreprocessTask(i, cs[i])]
       /\ dfsIndexCache = IF present THEN RangeIndex(n, special, withPatches)
                          ELSE [present |-> FALSE, index |-> <<>>]
  /\ InstallIdle
  /\ PlanIdle
  /\ RemoteIdle
  /\ groups = <<>>
  /\ mergePc = "ranges"
  /\ processed = [processedFiles |-> <<>>, mergedGroups |-> <<>>]

rangesRest == <<mergeFiles, dfsIndexCache, groups, mergePc, tmVars, installVars, remoteVars,
                latest_meta, disk, hashKey, local_meta, selection, multiInstall, chunkAgg, storeRun, github>>

\* the ranges of the session are collected and the task list is preprocessed;
\* without a loaded index collectDfs2Ranges throws 'DFS2 metadata not loaded'
CollectRanges ==
  /\ mergePc = "ranges"
  /\ rangeRun.pc = "idle"
  /\ IF dfsIndexCache.present
       THEN LET p == preprocessFiles(mergeFiles, dfsIndexCache, local)
            IN /\ processed' = p
               /\ rangeRun' = [rangeRun EXCEPT
                                 !.pc = "run",
                                 !.collected = collectDfs2Ranges(mergeFiles, local,
                                                                 dfsIndexCache),
                                 !.pending = DOMAIN p.processedFiles]
       ELSE /\ rangeRun' = [rangeRun EXCEPT !.pc = "thrown"]
            /\ UNCHANGED processed
  /\ UNCHANGED rangesRest

\* SingleFileTask.execute / LocalFileTask.execute for the entry at k: a retry
\* by the task manager repeats the same call
ExecuteFile(k) ==
  /\ rangeRun.pc = "run"
  /\ k \in rangeRun.pending
  /\ ~IsVirtualMergedFile(processed.processedFiles[k])
  /\ LET f == processed.processedFiles[k]
     IN rangeRun' = [rangeRun EXCEPT
                       !.pending = @ \ {k},
                       !.requested = @ \cup RunDfsDownloadRanges(f, local, dfsIndexCache,
                                                                 f.failed, f.failed)]
  /\ UNCHANGED <<processed, rangesRest>>

\* MergedGroupTask.execute for the entry at k: the merged range is asked
\* for, the members with an Err result are downloaded again one by one with
\* nothing disabled, and if the call throws the catch block adds a
\* SingleFileTask for every member
ExecuteMergedGroup(k, res, threw) ==
  /\ rangeRun.pc = "run"
  /\ k \in rangeRun.pending
  /\ IsVirtualMergedFile(processed.processedFiles[k])
  /\ LET v == processed.processedFiles[k]
         ms == v.mergedInfo.files
     IN /\ res \in [DOMAIN ms -> {"Ok", "Err"}]
        /\ rangeRun' = [rangeRun EXCEPT
             !.pending = @ \ {k},
             !.requested =
                @ \cup {v.mergedInfo.mergedRange}
                  \cup UNION {RunDfsDownloadRanges(ms[i], local, dfsIndexCache, FALSE, FALSE) :
                              i \in {j \in DOMAIN ms : res[j] = "Err"}},
             !.fallback = IF threw THEN @ \cup {m.file_name : m \in Range(v.fallbackFiles)}
                          ELSE @]
  /\ UNCHANGED <<processed, rangesRest>>

\* a SingleFileTask added by the catch block runs: its file's failed flag
\* was reset
ExecuteFallbackTask(name) ==
  /\ rangeRun.pc = "run"
  /\ name \in rangeRun.fallback
  /\ rangeRun' = [rangeRun EXCEPT
       !.fallback = @ \ {name},
       !.requested = @ \cup RunDfsDownloadRanges(mergeFiles[name], local, dfsIndexCache,
                                                 FALSE, FALSE)]
  /\ UNCHANGED <<processed, rangesRest>>

\* per member Ok or Err; a missing or unrecognised entry starts no download,
\* like Ok
MemberResults == UNION {[1..n -> {"Ok", "Err"}] : n \in 2..(MaxRangeFiles + 1)}

NextRanges ==
  \/ CollectRanges
  \/ \E k \in rangeRun.pending : ExecuteFile(k)
  \/ \E k \in rangeRun.pending : \E res \in MemberResults : \E threw \in BOOLEAN :
       ExecuteMergedGroup(k, res, threw)
  \/ \E name \in rangeRun.fallback : ExecuteFallbackTask(name)

SpecRanges == InitRanges /\ [][NextRanges]_vars

----------------------------------------------------------------------------
(* ChunkUrlAggregator (src/src/dfs.ts): requests of one 50 ms window are    *)
(* sent as one get_dfs2_batch_chunk_urls call.  pendingRequests maps a      *)
(* range to the promises waiting for it (here: their numbers); a range      *)
(* without waiting promises is not a key of the map.                        *)

MaxChunkRequests == 3      \* requestChunkUrl calls of a run

SessionUrls == {"session/1", "session/2"}

\* the keys of pendingRequests
PendingKeys(a) == {r \in DOMAIN a.pendingRequests : a.pendingRequests[r] # <<>>}

\* requestChunkUrl: the executor of the new promise; each promise records how
\* often it was put into a batch call (sent), how often it was resolved or
\* rejected (calls) and how many batch calls were in flight when it was made
RequestChunkUrl(a, sessionUrl, range) ==
  LET id == Len(a.promises) + 1
      old == IF range \in DOMAIN a.pendingRequests THEN a.pendingRequests[range] ELSE <<>>
  IN [a EXCEPT
        !.promises = Append(@, [range |-> range, state |-> "pending", value |-> "",
                                calls |-> 0, sent |-> 0,
                                during |-> Cardinality(a.batches)]),
        !.pendingRequests = [r \in DOMAIN @ \cup {range} |->
                               IF r = range THEN Append(old, id) ELSE @[r]],
        !.currentSessionUrl = sessionUrl,
        !.aggregationTimer = TRUE]

\* variant: the queue is not cleared when a batch is taken
TakePendingKeep(a) ==
  [a EXCEPT !.aggregationTimer = FALSE, !.currentSessionUrl = ""]

\* flushPendingRequests: pendingRequests.clear(), timer and session URL reset
TakePending(a) ==
  [a EXCEPT !.pendingRequests = <<>>, !.aggregationTimer = FALSE,
            !.currentSessionUrl = ""]

\* flushPendingRequests up to its await: nothing to do, or the pending map is
\* copied, the queue is reset and the batch call is issued
FlushBegin(a) ==
  IF PendingKeys(a) = {} \/ a.currentSessionUrl = ""
    THEN [a EXCEPT !.aggregationTimer = FALSE]
    ELSE LET requestsToProcess == a.pendingRequests
             ids == UNION {Range(requestsToProcess[r]) : r \in DOMAIN requestsToProcess}
         IN [TakePending(a) EXCEPT
               !.batches = @ \cup {[sessionApiUrl |-> a.currentSessionUrl,
                                    requests |-> requestsToProcess]},
               !.promises = [i \in DOMAIN @ |->
                               IF i \in ids THEN [@[i] EXCEPT !.sent = @ + 1] ELSE @[i]]]

\* req.resolve(url) / req.reject(error): only the first call settles a promise
Settle(p, state, value) ==
  [p EXCEPT !.calls = @ + 1,
            !.state = IF @ = "pending" THEN state ELSE @,
            !.value = IF p.state = "pending" THEN value ELSE @]

\* the loop over requestsToProcess after the batch call returned; urls[r] is
\* "url" (an entry with a url), "error" (an entry without) or "absent"
Distribute(a, b, urls) ==
  [a EXCEPT
     !.batches = @ \ {b},
     !.answered = @ \cup {[batch |-> b, threw |-> FALSE, urls |-> urls]},
     !.promises = [i \in DOMAIN @ |->
        IF \E r \in DOMAIN b.requests : i \in Range(b.requests[r])
          THEN IF urls[@[i].range] = "url"
                 THEN Settle(@[i], "resolved", <<b.sessionApiUrl, @[i].range>>)
                 ELSE Settle(@[i], "rejected", urls[@[i].range])
          ELSE @[i]]]

\* the catch block: the batch call failed, every promise of the batch is rejected
RejectAll(a, b) ==
  [a EXCEPT
     !.batches = @ \ {b},
     !.answered = @ \cup {[batch |-> b, threw |-> TRUE, urls |-> <<>>]},
     !.promises = [i \in DOMAIN @ |->
        IF \E r \in DOMAIN b.requests : i \in Range(b.requests[r])
          THEN Settle(@[i], "rejected", "batch failed")
          ELSE @[i]]]

InitAggregator ==
  /\ InitManager(WorkloadNone)
  /\ MergeIdle
  /\ InstallIdle
  /\ RemoteIdle
  /\ latest_meta = [hashed |-> <<>>, patches |-> <<>>, deletes |-> <<>>]
  /\ disk = <<>>
  /\ hashKey = ""
  /\ local_meta = <<>>
  /\ selection = SelectionIdle
  /\ multiInstall = MultiInstallIdle
  /\ rangeRun = RangeRunIdle
  /\ chunkAgg = [ChunkAggIdle EXCEPT !.on = TRUE]
  /\ storeRun = StoreRunIdle
  /\ github = GitHubIdle

aggregatorRest == <<tmVars, mergeVars, installVars, remoteVars, latest_meta, disk, hashKey,
                    local_meta, selection, multiInstall, rangeRun, storeRun, github>>

\* getDfs2Url hands a range to the aggregator
ChunkUrlRequested(sessionUrl, range) ==
  /\ chunkAgg.on
  /\ Len(chunkAgg.promises) < MaxChunkRequests
  /\ chunkAgg' = RequestChunkUrl(chunkAgg, sessionUrl, range)
  /\ UNCHANGED aggregatorRest

\* the aggregation timer fires
AggregationTimerFired ==
  /\ chunkAgg.aggregationTimer
  /\ chunkAgg' = FlushBegin(chunkAgg)
  /\ UNCHANGED aggregatorRest

\* get_dfs2_batch_chunk_urls returns for batch b
BatchCallReturned(b, urls) ==
  /\ b \in chunkAgg.batches
  /\ chunkAgg' = Distribute(chunkAgg, b, urls)
  /\ UNCHANGED aggregatorRest

\* get_dfs2_batch_chunk_urls fails for batch b
BatchCallThrew(b) ==
  /\ b \in chunkAgg.batches
  /\ chunkAgg' = RejectAll(chunkAgg, b)
  /\ UNCHANGED aggregatorRest

NextAggregator ==
  \/ \E u \in SessionUrls, r \in Ranges : ChunkUrlRequested(u, r)
  \/ AggregationTimerFired
  \/ \E b \in chunkAgg.batches :
     \E urls \in [DOMAIN b.requests -> {"url", "error", "absent"}] :
       BatchCallReturned(b, urls)
  \/ \E b \in chunkAgg.batches : BatchCallThrew(b)

SpecAggregator == InitAggregator /\ [][NextAggregator]_vars

----------------------------------------------------------------------------
(* refreshDfsIndex: the remote reader (src/src/dfs.ts)                     *)
(* The segment region is a sequence of items: a well-formed segment, a     *)
(* segment whose parsing throws (a length that leaves the buffer, JSON     *)
(* that does not parse), or bytes that are not the magic !IN\0.            *)

MaxSegments == 4

\* calls of getDfsMetadata after the first one
MaxReads == 2

KnownSegments == {"\\0CONFIG", "\\0META", "\\0THEME", "\\0INDEX"}

SegmentNames == KnownSegments \cup {"\\0EXTRA"}

\* the items a segment region is made of
RegionItems ==
  { [kind |-> "segment", name |-> n, entries |-> <<>>] : n \in SegmentNames \ {"\\0INDEX"} }
  \cup { [kind |-> "segment", name |-> "\\0INDEX", entries |-> <<[size |-> 8, offset |-> 2]>>] }
  \cup { [kind |-> "malformed", name |-> "\\0CONFIG", entries |-> <<>>],
         [kind |-> "bytes", name |-> "", entries |-> <<>>] }

\* index.set(name, { name, offset: index_start + offset, raw_offset: 0, size })
ParseIndex(entries, index_start) ==
  [i \in DOMAIN entries |-> IndexEntry(index_start + entries[i].offset, entries[i].size)]

\* switch (name): the four known names fill segments, default only logs
ParseSegment(segs, item, index_start) ==
  CASE item.name = "\\0CONFIG" -> [segs EXCEPT !.config = TRUE]
    [] item.name = "\\0META"   -> [segs EXCEPT !.metadata = TRUE]
    [] item.name = "\\0THEME"  -> [segs EXCEPT !.theme = TRUE]
    [] item.name = "\\0INDEX"  ->
         [segs EXCEPT !.hasIndex = TRUE,
                      !.index = ParseIndex(item.entries, index_start)]
    [] OTHER -> segs

\* while (offset < index_data.length): skip bytes that are not the magic,
\* parse a segment, leave the loop when the parsing throws
RECURSIVE ParseRegion(_, _, _, _)
ParseRegion(region, offset, segs, index_start) ==
  IF offset > Len(region) THEN segs
  ELSE LET item == region[offset]
       IN CASE item.kind = "bytes" -> ParseRegion(region, offset + 1, segs, index_start)
            [] item.kind = "malformed" -> segs
            [] OTHER -> ParseRegion(region, offset + 1,
                                    ParseSegment(segs, item, index_start), index_start)

\* variant: only the index is asked for
MissingSegmentIndexOnly(segs) == IF ~segs.hasIndex THEN "No index" ELSE ""

\* the three checks after the loop
MissingSegment(segs) ==
  IF ~segs.hasIndex THEN "No index"
  ELSE IF ~segs.metadata THEN "No metadata"
  ELSE IF ~segs.config THEN "No config"
  ELSE ""

Packages ==
  UNION { [magic : BOOLEAN, index_start : {4}, region : [1..n -> RegionItems]]
          : n \in 0..MaxSegments }

InitReader ==
  /\ InitManager(WorkloadNone)
  /\ MergeIdle
  /\ InstallIdle
  /\ PlanIdle
  /\ SessionIdle
  /\ \E p \in Packages :
       reader = [pc |-> "header", package |-> p, segments |-> NoSegments, error |-> "",
                 calls |-> 0, fetches |-> 1]

ReaderThrew(error) ==
  /\ reader' = [reader EXCEPT !.pc = "thrown", !.error = error]
  /\ UNCHANGED dfsIndexCache

\* invoke('get_http_with_range', { offset: 0, size: 256 }) has returned
HeaderFetched(ok) ==
  /\ reader.pc = "header"
  /\ IF ~ok THEN ReaderThrew("get_http_with_range")
     ELSE IF ~reader.package.magic THEN ReaderThrew("Invalid remote index")
     ELSE /\ reader' = [reader EXCEPT !.pc = "region", !.fetches = @ + 1]
          /\ UNCHANGED dfsIndexCache
  /\ UNCHANGED <<mergeFiles, groups, mergePc, processed, tmVars, installVars, planVars,
                 dfs2Sessions, session, server, aggregator, cleanup, requests>>

\* the segment region has been fetched: parse it, check it, cache it
RegionFetched(ok) ==
  /\ reader.pc = "region"
  /\ IF ~ok THEN ReaderThrew("get_http_with_range")
     ELSE LET segs == ParseRegion(reader.package.region, 1, NoSegments,
                                  reader.package.index_start)
          IN IF MissingSegment(segs) # ""
               THEN /\ reader' = [reader EXCEPT !.pc = "thrown", !.segments = segs,
                                                !.error = MissingSegment(segs)]
                    /\ UNCHANGED dfsIndexCache
               ELSE /\ reader' = [reader EXCEPT !.pc = "returned", !.segments = segs]
                    /\ dfsIndexCache' = [present |-> TRUE, index |-> segs.index]
  /\ UNCHANGED <<mergeFiles, groups, mergePc, processed, tmVars, installVars, planVars,
                 dfs2Sessions, session, server, aggregator, cleanup, requests>>

\* getDfsMetadata is called again for the source: it answers from
\* dfsIndexCache if the source is there, and calls refreshDfsIndex if not
GetDfsMetadata ==
  /\ reader.pc \in {"returned", "thrown"}
  /\ reader.calls < MaxReads
  /\ reader' = IF dfsIndexCache.present
                 THEN [reader EXCEPT !.pc = "returned", !.error = "", !.calls = @ + 1]
                 ELSE [reader EXCEPT !.pc = "header", !.error = "", !.calls = @ + 1,
                                     !.segments = NoSegments, !.fetches = @ + 1]
  /\ UNCHANGED <<mergeVars, tmVars, installVars, planVars,
                 dfs2Sessions, session, server, aggregator, cleanup, requests>>

NextReader ==
  \/ \E ok \in BOOLEAN : HeaderFetched(ok)
  \/ \E ok \in BOOLEAN : RegionFetched(ok)
  \/ GetDfsMetadata

SpecReader == InitReader /\ [][NextReader]_vars

----------------------------------------------------------------------------
(* DFS2 sessions: createDfs2Session, storeDfs2Session, cleanupDfs2Session, *)
(* getDfs2Url and the ChunkUrlAggregator (src/src/dfs.ts)                  *)

MaxCreates == 1

MaxRequests == 2

SessionFaults == 1

RetryFaults == 3

ChallengeTypes == {"md5", "sha256", "web"}

\* solve_dfs2_challenge: the digest of the challenge data under the
\* algorithm the challenge names
Solve(type, data) == <<type, data>>

\* the ways the backend call create_dfs2_session fails
ErrorClasses == {"ConnectionReset", "ConnectionRefused", "Timeout", "Http4xx", "Http5xx"}

\* the error the backend throws, as JSON.stringify shows it: the fragments
\* of the string that isNetworkError looks for
BackendError(class) ==
  [message |-> class,
   str |-> CASE class = "Http4xx" -> {"Session creation failed:", "404"}
             [] class = "Http5xx" -> {"Session creation failed:", "503"}
             [] OTHER -> {"Failed to send request:", "reqwest::Error", "kind: " \o class}]

\* an Error object thrown by the front end: JSON.stringify shows {}
ThrownError(message) == [message |-> message, str |-> {}]

\* isNetworkError if nothing were a network error
isNetworkErrorNever(error) == FALSE

\* isNetworkError(error): the tests on JSON.stringify(error), in order
isNetworkError(error) ==
  IF "Session creation failed:" \in error.str THEN FALSE
  ELSE IF /\ "Failed to send request:" \in error.str
          /\ error.str \cap {"reqwest::Error", "hyper::Error",
                              "hyper_util::client::legacy::Error"} # {}
    THEN TRUE
  ELSE IF error.str \cap {"kind: ConnectionReset", "kind: Timeout",
                          "kind: ConnectionRefused", "kind: NotFound"} # {}
    THEN TRUE
  ELSE IF error.str \cap {"code: 10054", "code: 10060", "code: 10061"} # {}
    THEN TRUE
  ELSE FALSE

\* the server finds the answer to the challenge it issued for sessionId
Answered(srv, challengeResponse, sessionId) ==
  /\ srv.issued.type # ""
  /\ sessionId = srv.sessions
  /\ challengeResponse = Solve(srv.issued.type, srv.issued.data)

\* what create_dfs2_session can come back with: a session id, a challenge,
\* a response that is neither, or a throw of the backend call
ReplyKinds ==
  {[kind |-> "grant", type |-> ""], [kind |-> "invalid", type |-> ""]}
  \cup {[kind |-> "error", type |-> c] : c \in ErrorClasses}
  \cup {[kind |-> "challenge", type |-> c] : c \in ChallengeTypes}

\* a reply that a server keeping to the protocol gives to this request
Regular(srv, reply, challengeResponse, sessionId) ==
  IF Answered(srv, challengeResponse, sessionId)
    THEN reply.kind = "grant"
    ELSE reply.kind \in {"grant", "challenge"}

\* the server after the reply, and the response the client receives; a new
\* session takes the next session id, its challenge data is that id
ServerReply(srv, apiUrl, reply, challengeResponse, sessionId) ==
  LET fresh == srv.sessions + 1
      spent == IF Regular(srv, reply, challengeResponse, sessionId)
                 THEN srv.faults ELSE srv.faults + 1
  IN CASE reply.kind = "grant" ->
            LET sid == IF Answered(srv, challengeResponse, sessionId)
                         THEN sessionId ELSE fresh
            IN [srv |-> [sessions |-> sid, issued |-> NoChallenge,
                         granted |-> srv.granted \cup {<<apiUrl, sid>>},
                         faults |-> spent, budget |-> srv.budget],
                response |-> [sid |-> sid, challenge |-> "", data |-> 0]]
       [] reply.kind = "challenge" ->
            [srv |-> [sessions |-> fresh, issued |-> [type |-> reply.type, data |-> fresh],
                      granted |-> srv.granted, faults |-> spent, budget |-> srv.budget],
             response |-> [sid |-> fresh, challenge |-> reply.type, data |-> fresh]]
       [] OTHER ->
            [srv |-> [srv EXCEPT !.faults = spent],
             response |-> [sid |-> 0, challenge |-> "", data |-> 0]]

\* storeDfs2Session(apiUrl, sessionId)
storeDfs2Session(sessions, apiUrl, sessionId) ==
  [sessions EXCEPT ![apiUrl] = sessionId]

\* `${baseUrl}/session/${sessionId}/${resId}`
SessionApiUrl(apiUrl, sessionId) == <<apiUrl, sessionId>>

\* the test of getDfs2Url if it let every call through
HasSessionAlways(sessions, apiUrl) == TRUE

\* const sessionInfo = dfs2Sessions.get(apiUrl); if (!sessionInfo) throw
HasSession(sessions, apiUrl) == sessions[apiUrl] # 0

InitSession ==
  /\ InitManager(WorkloadNone)
  /\ MergeIdle
  /\ InstallIdle
  /\ PlanIdle
  /\ ReaderIdle
  /\ SessionsAtStart(SessionFaults)

sessionRest == <<reader, tmVars, mergeVars, installVars, planVars>>

\* createDfs2Session(apiUrl) is called; the first create_dfs2_session goes out
CreateBegin(u) ==
  /\ session.pc \in {"idle", "returned", "thrown"}
  /\ session.calls < MaxCreates
  /\ session' = [SessionAtRest("create", session.calls + 1) EXCEPT !.apiUrl = u]
  /\ UNCHANGED <<dfs2Sessions, server, aggregator, cleanup, requests, sessionRest>>

\* the catch of the retry loop: a network error is retried after a delay
\* while retryAttempt < 2, every other error leaves the function
SessionCaught(S, error) ==
  IF isNetworkError(error) /\ S.retryAttempt < 2
    THEN [S EXCEPT !.pc = "delay", !.error = error.message,
                   !.retried = @ \cup {error.message}]
    ELSE [S EXCEPT !.pc = "thrown", !.error = error.message]

\* `continue` of the challenge loop: the next create_dfs2_session, or the
\* throw after three challenge attempts
NextChallengeAttempt(S) ==
  IF S.challengeAttempts + 1 < 3
    THEN [S EXCEPT !.pc = "create", !.challengeAttempts = @ + 1]
    ELSE SessionCaught([S EXCEPT !.challengeAttempts = @ + 1],
                       ThrownError("Failed to create session after 3 challenge attempts"))

\* create_dfs2_session has returned or thrown
CreateReturned(reply) ==
  /\ session.pc = "create"
  /\ Regular(server, reply, session.challengeResponse, session.sessionId)
       \/ server.faults < server.budget
  /\ LET r == ServerReply(server, session.apiUrl, reply,
                          session.challengeResponse, session.sessionId)
         resp == r.response
         S == [session EXCEPT !.sessionResponse = resp,
                 !.disturbed = @ \/ ~Regular(server, reply, session.challengeResponse,
                                             session.sessionId)]
     IN /\ server' = r.srv
        /\ IF reply.kind = "error"
             THEN /\ session' = SessionCaught(S, BackendError(reply.type))
                  /\ UNCHANGED dfs2Sessions
           ELSE IF resp.sid # 0 /\ resp.challenge = ""
             THEN /\ dfs2Sessions' = storeDfs2Session(dfs2Sessions, session.apiUrl, resp.sid)
                  /\ session' = [S EXCEPT !.pc = "returned", !.result = resp.sid]
           ELSE IF resp.challenge # "" /\ resp.data # 0 /\ resp.sid # 0
             THEN /\ session' = IF resp.challenge = "web"
                                  THEN SessionCaught(S, ThrownError("Web challenge failed"))
                                  ELSE [S EXCEPT !.pc = "solve"]
                  /\ UNCHANGED dfs2Sessions
           ELSE /\ session' = SessionCaught(S, ThrownError("Invalid session response format"))
                /\ UNCHANGED dfs2Sessions
  /\ UNCHANGED <<aggregator, cleanup, requests, sessionRest>>

\* solve_dfs2_challenge has returned the answer, or thrown
SolveReturned(ok) ==
  /\ session.pc = "solve"
  /\ ok \/ server.faults < server.budget
  /\ server' = [server EXCEPT !.faults = IF ok THEN @ ELSE @ + 1]
  /\ session' =
       IF ok
         THEN NextChallengeAttempt(
                [session EXCEPT !.challengeResponse =
                                   Solve(session.sessionResponse.challenge,
                                         session.sessionResponse.data),
                                !.sessionId = session.sessionResponse.sid])
         ELSE NextChallengeAttempt(
                [session EXCEPT !.challengeResponse = <<>>, !.sessionId = 0,
                                !.disturbed = TRUE])
  /\ UNCHANGED <<dfs2Sessions, aggregator, cleanup, requests, sessionRest>>

\* the delay before a retry has passed: the next iteration of the retry loop
RetryDelayElapsed ==
  /\ session.pc = "delay"
  /\ session' = [session EXCEPT !.pc = "create", !.retryAttempt = @ + 1,
                                !.challengeAttempts = 0,
                                !.challengeResponse = <<>>, !.sessionId = 0]
  /\ UNCHANGED <<dfs2Sessions, server, aggregator, cleanup, requests, sessionRest>>

\* one more entry of the record of calls and requests
Logged(entry, called) ==
  [calls |-> requests.calls + called, log |-> requests.log \cup {entry}]

\* getDfs2Url(apiUrl, range): throw without a session, else hand the range
\* to the aggregator, which (re)starts its timer
GetDfs2Url(u, range) ==
  /\ requests.calls < MaxRequests
  /\ IF ~HasSession(dfs2Sessions, u)
       THEN /\ requests' = Logged([kind |-> "notFound", apiUrl |-> u,
                                   sid |-> dfs2Sessions[u], stored |-> FALSE], 1)
            /\ UNCHANGED aggregator
       ELSE /\ requests' = Logged([kind |-> "enqueued", apiUrl |-> u,
                                   sid |-> dfs2Sessions[u], stored |-> TRUE], 1)
            /\ aggregator' =
                 [aggregator EXCEPT !.pendingRequests = @ \cup {range},
                                    !.currentSessionUrl = SessionApiUrl(u, dfs2Sessions[u]),
                                    !.aggregationTimer = TRUE]
  /\ UNCHANGED <<dfs2Sessions, session, server, cleanup, sessionRest>>

\* the aggregation timer fires: flushPendingRequests up to its await
FlushPendingRequests ==
  /\ aggregator.aggregationTimer
  /\ IF aggregator.pendingRequests = {} \/ aggregator.currentSessionUrl = <<>>
       THEN /\ aggregator' = [aggregator EXCEPT !.aggregationTimer = FALSE]
            /\ UNCHANGED requests
       ELSE LET url == aggregator.currentSessionUrl
            IN /\ requests' =
                    Logged([kind |-> "batch", apiUrl |-> url[1], sid |-> url[2],
                            stored |-> dfs2Sessions[url[1]] = url[2]], 0)
               /\ aggregator' =
                    [aggregator EXCEPT
                       !.pendingRequests = {},
                       !.aggregationTimer = FALSE,
                       !.currentSessionUrl = <<>>,
                       !.inFlight = @ + 1]
  /\ UNCHANGED <<dfs2Sessions, session, server, cleanup, sessionRest>>

\* get_dfs2_batch_chunk_urls has returned or thrown: every waiting request
\* of the batch is resolved or rejected
BatchReturned ==
  /\ aggregator.inFlight > 0
  /\ aggregator' = [aggregator EXCEPT !.inFlight = @ - 1]
  /\ UNCHANGED <<dfs2Sessions, session, server, cleanup, requests, sessionRest>>

\* cleanupDfs2Session(apiUrl) finds a session and sends end_dfs2_session
CleanupBegin(u) ==
  /\ cleanup.pc = "idle"
  /\ dfs2Sessions[u] # 0
  /\ cleanup' = [pc |-> "ending", apiUrl |-> u]
  /\ UNCHANGED <<dfs2Sessions, session, server, aggregator, requests, sessionRest>>

\* end_dfs2_session has returned or thrown: dfs2Sessions.delete(apiUrl)
CleanupReturned ==
  /\ cleanup.pc = "ending"
  /\ dfs2Sessions' = [dfs2Sessions EXCEPT ![cleanup.apiUrl] = 0]
  /\ cleanup' = [pc |-> "idle", apiUrl |-> ""]
  /\ UNCHANGED <<session, server, aggregator, requests, sessionRest>>

NextSession ==
  \/ \E u \in ApiUrls : CreateBegin(u)
  \/ \E reply \in ReplyKinds : CreateReturned(reply)
  \/ \E ok \in BOOLEAN : SolveReturned(ok)
  \/ RetryDelayElapsed
  \/ \E u \in ApiUrls, range \in Ranges : GetDfs2Url(u, range)
  \/ FlushPendingRequests
  \/ BatchReturned
  \/ \E u \in ApiUrls : CleanupBegin(u)
  \/ CleanupReturned

SpecSession == InitSession /\ [][NextSession]_vars

\* createDfs2Session alone, against a backend that fails up to RetryFaults times
InitRetry ==
  /\ InitManager(WorkloadNone)
  /\ MergeIdle
  /\ InstallIdle
  /\ PlanIdle
  /\ ReaderIdle
  /\ SessionsAtStart(RetryFaults)

NextRetry ==
  \/ \E u \in ApiUrls : CreateBegin(u)
  \/ \E reply \in ReplyKinds : CreateReturned(reply)
  \/ \E ok \in BOOLEAN : SolveReturned(ok)
  \/ RetryDelayElapsed

SpecRetry == InitRetry /\ [][NextRetry]_vars

----------------------------------------------------------------------------
(* The session store alone (src/src/dfs.ts): storeDfs2Session,             *)
(* cleanupDfs2Session and cleanupAllDfs2Sessions called in any order.      *)
(* storeRun.ended holds the sessions an end_dfs2_session call was issued   *)
(* for, storeRun.removed the sessions that left the dfs2Sessions map.      *)

\* sessions stored in one run
MaxStores == 3

\* direct calls of cleanupDfs2Session in one run
MaxCleanupCalls == 2

\* the sessions the map holds
StoredSessions(sessions) == {sessions[u] : u \in {v \in ApiUrls : sessions[v] # 0}}

\* dfs2Sessions.delete(apiUrl)
DeleteSession(sessions, apiUrl) == [sessions EXCEPT ![apiUrl] = 0]

\* dfs2Sessions.clear()
ClearSessions(sessions) == [u \in ApiUrls |-> 0]

\* cleanupDfs2Session(apiUrl) up to its await: the end_dfs2_session calls
\* issued, one for each API URL of `urls` that has a session
BeginCleanups(sessions, urls, call) ==
  {[apiUrl |-> u, sessionId |-> sessions[u], call |-> call] : u \in {v \in urls : sessions[v] # 0}}

InitStore ==
  /\ InitManager(WorkloadNone)
  /\ MergeIdle
  /\ InstallIdle
  /\ PlanIdle
  /\ RemoteIdle

storeRest == <<reader, session, server, aggregator, cleanup, requests, tmVars, mergeVars,
               installVars, latest_meta, disk, hashKey, local_meta, selection, multiInstall,
               rangeRun, chunkAgg, github>>

\* createDfs2Session has a session id: storeDfs2Session(apiUrl, sid)
StoreSession(u) ==
  /\ storeRun.nextId <= MaxStores
  /\ dfs2Sessions' = storeDfs2Session(dfs2Sessions, u, storeRun.nextId)
  /\ storeRun' = [storeRun EXCEPT
       !.nextId = @ + 1,
       !.removed = @ \cup (StoredSessions(dfs2Sessions) \ StoredSessions(dfs2Sessions'))]
  /\ UNCHANGED storeRest

\* cleanupDfs2Session(apiUrl) is called and reaches `await invoke('end_dfs2_session')`;
\* without a stored session it returns at once
CleanupSessionBegin(u) ==
  /\ storeRun.calls < MaxCleanupCalls
  /\ storeRun' = [storeRun EXCEPT
       !.calls = @ + 1,
       !.cleanups = @ \cup BeginCleanups(dfs2Sessions, {u}, storeRun.calls + 1),
       !.ended = @ \cup {c.sessionId : c \in BeginCleanups(dfs2Sessions, {u}, 0)}]
  /\ UNCHANGED <<dfs2Sessions, storeRest>>

\* end_dfs2_session has returned or thrown: dfs2Sessions.delete(apiUrl)
CleanupSessionReturned(c) ==
  /\ c \in storeRun.cleanups
  /\ dfs2Sessions' = DeleteSession(dfs2Sessions, c.apiUrl)
  /\ storeRun' = [storeRun EXCEPT
       !.cleanups = @ \ {c},
       !.removed = @ \cup (StoredSessions(dfs2Sessions) \ StoredSessions(dfs2Sessions'))]
  /\ UNCHANGED storeRest

\* cleanupAllDfs2Sessions: a cleanupDfs2Session for every key of the map,
\* then `await Promise.allSettled(cleanupPromises)`
CleanupAllBegin ==
  /\ storeRun.all = "idle"
  /\ storeRun' = [storeRun EXCEPT
       !.all = "waiting",
       !.cleanups = @ \cup BeginCleanups(dfs2Sessions, ApiUrls, 0),
       !.ended = @ \cup {c.sessionId : c \in BeginCleanups(dfs2Sessions, ApiUrls, 0)}]
  /\ UNCHANGED <<dfs2Sessions, storeRest>>

\* all the cleanups it started have settled: dfs2Sessions.clear() and return
CleanupAllReturned ==
  /\ storeRun.all = "waiting"
  /\ \A c \in storeRun.cleanups : c.call # 0
  /\ dfs2Sessions' = ClearSessions(dfs2Sessions)
  /\ storeRun' = [storeRun EXCEPT
       !.all = "idle",
       !.removed = @ \cup StoredSessions(dfs2Sessions)]
  /\ UNCHANGED storeRest

NextStore ==
  \/ \E u \in ApiUrls : StoreSession(u)
  \/ \E u \in ApiUrls : CleanupSessionBegin(u)
  \/ \E c \in storeRun.cleanups : CleanupSessionReturned(c)
  \/ CleanupAllBegin
  \/ CleanupAllReturned

SpecStore == InitStore /\ [][NextStore]_vars

----------------------------------------------------------------------------
(* GitHubPlugin (src/src/plugins/github/index.ts): getChunkUrl resolves    *)
(* ${version} through the redirect of /releases/latest and caches it per   *)
(* owner/repo. The repository may publish a release at any time.           *)

\* getChunkUrl calls in one run
MaxChunkCalls == 3

\* releases a repository has had by the end of the run
MaxReleases == 2

\* source URLs with a ${version} placeholder: a repository and an asset path
GitHubUrls == {[repo |-> "o/r", asset |-> "a.bin"], [repo |-> "o/r", asset |-> "b.bin"],
               [repo |-> "p/q", asset |-> "a.bin"]}

\* parseUrl(url): the base URL and the cache key `${owner}/${repo}`
parseUrl(url) == [baseUrl |-> url, cacheKey |-> url.repo]

\* baseUrl.replace(/\$\{version\}/g, version)
ReplaceVersion(baseUrl, version) == <<baseUrl.repo, version, baseUrl.asset>>

\* the release a resolved URL refers to
VersionOf(resolvedUrl) == resolvedUrl[2]

\* this.versionCache.get(cacheKey) found an entry
IsCached(g, cacheKey) == g.versionCache[cacheKey].version # 0

\* this.versionCache.set(cacheKey, cached)
SetVersionCache(g, cacheKey, cached) ==
  [g EXCEPT !.versionCache[cacheKey] = cached]

\* return { url: cached.resolvedUrl, range }
ReturnChunkUrl(g, cacheKey, cached) ==
  [g EXCEPT !.returned = @ \cup {[repo |-> cacheKey, url |-> cached.resolvedUrl]}]

InitGitHub ==
  /\ InitManager(WorkloadNone)
  /\ MergeIdle
  /\ InstallIdle
  /\ PlanIdle
  /\ RemoteIdle

githubRest == <<tmVars, mergeVars, installVars, remoteVars, latest_meta, disk, hashKey,
                local_meta, selection, multiInstall, rangeRun, chunkAgg, storeRun>>

\* getChunkUrl(url, range) up to its first await: a cache hit returns the
\* cached URL, a miss sends http_get_request for /releases/latest
GetChunkUrl(url) ==
  /\ github.calls < MaxChunkCalls
  /\ LET p == parseUrl(url)
         g == [github EXCEPT !.calls = @ + 1]
     IN github' = IF IsCached(github, p.cacheKey)
                    THEN ReturnChunkUrl(g, p.cacheKey, github.versionCache[p.cacheKey])
                    ELSE [g EXCEPT !.inFlight = @ \cup {[id |-> g.calls, url |-> url]}]
  /\ UNCHANGED githubRest

\* the repository publishes a release: /releases/latest redirects to it
ReleasePublished(repo) ==
  /\ github.latest[repo] < MaxReleases
  /\ github' = [github EXCEPT !.latest[repo] = @ + 1]
  /\ UNCHANGED githubRest

\* resolveVersion returned the tag of the redirect: the URL is resolved,
\* cached under the repository and returned
ResolveVersionReturned(c) ==
  /\ c \in github.inFlight
  /\ LET p == parseUrl(c.url)
         version == github.latest[p.cacheKey]
         cached == [version |-> version, resolvedUrl |-> ReplaceVersion(p.baseUrl, version)]
     IN github' = ReturnChunkUrl(
                    SetVersionCache([github EXCEPT !.inFlight = @ \ {c}], p.cacheKey, cached),
                    p.cacheKey, cached)
  /\ UNCHANGED githubRest

\* http_get_request threw, or the redirect has no tag: getChunkUrl rejects
ResolveVersionThrew(c) ==
  /\ c \in github.inFlight
  /\ github' = [github EXCEPT !.inFlight = @ \ {c}]
  /\ UNCHANGED githubRest

NextGitHub ==
  \/ \E url \in GitHubUrls : GetChunkUrl(url)
  \/ \E repo \in Repos : ReleasePublished(repo)
  \/ \E c \in github.inFlight : ResolveVersionReturned(c)
  \/ \E c \in github.inFlight : ResolveVersionThrew(c)

SpecGitHub == InitGitHub /\ [][NextGitHub]_vars

----------------------------------------------------------------------------
(* The size classes of DownloadTaskManager: the constructor computes the   *)
(* threshold from the task list, addTask classifies every task by it.      *)

MaxThresholdTasks == 6

\* sizes with a task exactly at 80% of another
ThresholdSizes == {4 * KiB, 5 * KiB, 8 * KiB}

\* longer lists, for which floor(0.3 * length) is 3 and 4
LongSizeLists ==
  { [i \in 1..n |-> IF equal THEN 5 * KiB ELSE (n + 1 - i) * KiB]
    : n \in {10, 14}, equal \in BOOLEAN }

SizeLists ==
  UNION { [1..n -> ThresholdSizes] : n \in 4..MaxThresholdTasks } \cup LongSizeLists

\* new DownloadTaskManager(files) and one SingleFileTask per file
ThresholdWorkload(sizes) ==
  [files |-> [i \in DOMAIN sizes |-> PlainFile(<<"f", i>>, sizes[i], <<"h", i>>)],
   local |-> {},
   ctor  |-> sizes,
   faults |-> 0,
   todo  |-> [i \in DOMAIN sizes |-> SingleFileTask(i, TRUE)]]

InitThreshold ==
  /\ \E sizes \in SizeLists : InitManager(ThresholdWorkload(sizes))
  /\ MergeIdle
  /\ InstallIdle
  /\ PlanIdle
  /\ RemoteIdle

NextThreshold == Caller

SpecThreshold == InitThreshold /\ [][NextThreshold]_vars

----------------------------------------------------------------------------
(* Properties of DownloadTaskManager *)

FileTasks == {t \in DOMAIN tasks : tasks[t].kind # "MergedGroupTask"}

\* the tasks taken from a queue whose executeTask has not finished
Executing(type) ==
  {t \in DOMAIN exec : exec[t].type = type /\ exec[t].pc \notin {"queued", "done"}}

\* a SingleFileTask added by the catch block of an earlier MergedGroupTask
IsFallbackTask(t) ==
  /\ tasks[t].kind = "SingleFileTask"
  /\ \E g \in DOMAIN tasks :
       /\ g < t
       /\ tasks[g].kind = "MergedGroupTask"
       /\ tasks[t].file \in Range(tasks[g].members)

\* C1: at every moment at most 4 tasks of the large queue, 6 of the small
\* queue and 16 of the local queue are executing, and no running counter
\* is negative or above its slot count, inside a handler either.
C1_SlotBounds ==
  /\ ~overrun
  /\ Cardinality(Executing("large")) <= 4
  /\ Cardinality(Executing("small")) <= 6
  /\ Cardinality(Executing("local")) <= 16
  /\ largeTaskRunning >= 0
  /\ smallTaskRunning >= 0
  /\ localTaskRunning >= 0

\* all large slots taken while a fallback task of a failed group waits
C1_Witness ==
  /\ Cardinality(Executing("large")) = 4
  /\ \E i \in DOMAIN largeTaskQueue : IsFallbackTask(largeTaskQueue[i])

\* C2 (as claimed): every attempt after the first of a file task runs with
\* Patch and Local disabled, in Direct mode.
C2_RetryIsDirect ==
  \A t \in FileTasks :
    (exec[t].attempt > 1 /\ exec[t].pc \in {"url", "ipc"})
      => /\ exec[t].disable_patch
         /\ exec[t].disable_local
         /\ exec[t].mode = "Direct"

\* C3: execute runs at most 3 times per task; a completed or failed task is
\* finished and never executed again, a failed one after exactly 3 attempts;
\* no task is both completed and failed.
C3_State ==
  /\ completedTasks \cap failedTasks = {}
  /\ \A t \in DOMAIN tasks :
       /\ execCount[t] <= 3
       /\ t \in failedTasks => execCount[t] = 3
       /\ t \in completedTasks \cup failedTasks => exec[t].pc = "done"

C3_Step ==
  \A t \in DOMAIN tasks :
    t \in completedTasks \cup failedTasks
      => /\ execCount'[t] = execCount[t]
         /\ exec'[t].pc = "done"
         /\ (t \in completedTasks <=> t \in completedTasks')
         /\ (t \in failedTasks <=> t \in failedTasks')

C3_BoundedAttempts == []C3_State /\ [][C3_Step]_vars

\* one task failed after 3 attempts, another completed on its second
C3_Witness ==
  /\ \E t \in failedTasks : execCount[t] = 3
  /\ \E t \in completedTasks : execCount[t] = 2

\* C4 (as claimed): a step that ends with a terminally failed task on record
\* starts no task that was waiting in a queue.
C4_NoStartAfterFailure ==
  [][\A t \in DOMAIN exec :
       (failedTasks' # {} /\ exec[t].pc = "queued") => exec'[t].pc = "queued"]_vars

\* C5 (as claimed): waitForCompletion does not return normally when a task
\* is recorded as failed.
C5_FailureReported ==
  [][(waiter # "returned" /\ waiter' = "returned") => failedTasks' = {}]_vars

\* C8 (as claimed): after the backend reported Ok for a member's chunk, no
\* further install operation is issued for that member.
C8_NoSecondDownload ==
  \A f \in DOMAIN hist :
    \A i, j \in DOMAIN hist[f] :
      (i < j /\ hist[f][i].ev = "ok") => hist[f][j].ev # "install"

GroupSpan(g) ==
  g.files[Len(g.files)].dfsOffset + g.files[Len(g.files)].dfsSize - g.files[1].dfsOffset

GroupPayload(g) == SumDfsSize(g.files)

C7_GroupLimits ==
  mergePc = "done" =>
    \A k \in DOMAIN groups :
      Len(groups[k].files) >= 2 =>
        /\ GroupSpan(groups[k]) <= 10485760
        /\ GroupSpan(groups[k]) > 0
        /\ 5 * (GroupSpan(groups[k]) - GroupPayload(groups[k])) <= GroupSpan(groups[k])
        /\ \A i \in DOMAIN groups[k].files : groups[k].files[i].size <= 512000

\* a two member group with exactly 20 % waste, and a file of more than
\* 500 KiB whose range is adjacent to it and that was kept out of it
C7_Witness ==
  /\ mergePc = "done"
  /\ \E f \in Range(mergeFiles) : f.size > 512000
  /\ \E k \in DOMAIN groups :
       /\ Len(groups[k].files) = 2
       /\ 5 * (GroupSpan(groups[k]) - GroupPayload(groups[k])) = GroupSpan(groups[k])

\* C6: in runInstall the removal of obsolete files, the shortcuts, the
\* uninstaller and the registry write are started only after the download of
\* every diff task has succeeded; once a task has failed all its attempts none
\* of them has been or will be started and step 3 is never entered
FinalizationOps ==
  {"rm", "lnkDesktop", "lnkProgram", "lnkUninstall", "uninstaller", "registry"}

FinalizationStarted == \E i \in DOMAIN finalOps : finalOps[i] \in FinalizationOps

DownloadSucceeded(t) ==
  /\ t \in DOMAIN exec
  /\ exec[t].pc = "done"
  /\ hist[t] # <<>>
  /\ ~files[t].running

FailedAllAttempts(t) == exec[t].attempt = 3 /\ exec[t].pc \in {"dialog", "thrown"}

C6_FinalizeAfterDownloads ==
  /\ (FinalizationStarted \/ step = 3) => \A t \in DOMAIN files : DownloadSucceeded(t)
  /\ (\E t \in DOMAIN exec : FailedAllAttempts(t)) => ~FinalizationStarted /\ step # 3

\* an install of two files, one of them retried, has reached step 3 with
\* the deletes removed, the shortcuts, the uninstaller and the registry written
C6_Witness ==
  /\ step = 3
  /\ Len(files) = 2
  /\ \E t \in DOMAIN exec : exec[t].attempt > 1
  /\ FinalizationOps \subseteq Range(finalOps)

\* the mode the priority list names for a task
PriorityMode(item, loc) ==
  IF item.hash \in loc THEN "Local"
  ELSE IF item.lpatch.present /\ item.lpatch.from \in loc THEN "HybridPatch"
  ELSE IF item.patch.present THEN "Patch"
  ELSE "Direct"

\* the install operations runDfsDownload issued in iteration a of item t
OpsOf(t, a) ==
  SelectSeq(hist[t], LAMBDA e : e.ev = "install" /\ e.task = t /\ e.attempt = a)

\* C10 as stated: every first call of runDfsDownload with nothing disabled
\* that has ended has issued exactly one install operation, of the mode the
\* priority Local > HybridPatch > Patch > Direct names
C10_ExactlyOneOperation ==
  \A t \in DOMAIN exec :
    (~config.online /\ (exec[t].attempt > 1 \/ exec[t].pc = "done")) =>
      /\ Len(OpsOf(t, 1)) = 1
      /\ OpsOf(t, 1)[1].mode = PriorityMode(files[t], local)

\* C10, amended: a first call of runDfsDownload with nothing disabled takes
\* the branch the priority Local > HybridPatch > Patch > Direct names and
\* issues at most one install operation, of that mode: the Local operation at
\* once, the others once getDfsUrl has returned, none if getDfsUrl throws
C10_FirstAttemptMode ==
  \A t \in DOMAIN exec :
    ~config.online =>
      LET ops == OpsOf(t, 1)
          mode == PriorityMode(files[t], local)
          first == exec[t].attempt = 1
      IN /\ Len(ops) <= 1
         /\ \A i \in DOMAIN ops : ops[i].mode = mode
         /\ mode = "Local" => Len(ops) = 1
         /\ first => ~exec[t].disable_patch /\ ~exec[t].disable_local
                     /\ exec[t].mode = mode
         /\ (first /\ exec[t].pc = "url") => Len(ops) = 0
         /\ (first /\ exec[t].pc \in {"ipc", "done"}) => Len(ops) = 1

\* a task with a patch and an lpatch from an embedded payload has been
\* installed by its first call, in HybridPatch mode
C10_Witness ==
  \E t \in DOMAIN exec :
    /\ ~config.online
    /\ files[t].patch.present
    /\ files[t].lpatch.present
    /\ exec[t].attempt = 1
    /\ exec[t].pc = "done"
    /\ Len(OpsOf(t, 1)) = 1
    /\ OpsOf(t, 1)[1].mode = "HybridPatch"

\* C11: in the output of preprocessFiles no member of a merged group is a task
\* whose install mode is Local or HybridPatch, and every such task appears as
\* an individual task
ModeOfTask(name) == getFileInstallMode(mergeFiles[name], local)

MergedEntries == {k \in DOMAIN processed.processedFiles :
                    IsVirtualMergedFile(processed.processedFiles[k])}

IndividualEntries == DOMAIN processed.processedFiles \ MergedEntries

C11_MergedModes ==
  mergePc = "done" =>
    /\ \A k \in MergedEntries :
         LET v == processed.processedFiles[k]
         IN /\ \A m \in Range(v.fallbackFiles) :
                 ModeOfTask(m.file_name) \in {"Direct", "Patch"}
            /\ \A m \in Range(v.mergedInfo.files) :
                 ModeOfTask(m.file_name) \in {"Direct", "Patch"}
    /\ \A g \in Range(processed.mergedGroups) :
         \A m \in Range(g.group.files) : ModeOfTask(m.file_name) \in {"Direct", "Patch"}
    /\ \A i \in DOMAIN mergeFiles :
         ModeOfTask(i) \in {"Local", "HybridPatch"} =>
           Cardinality({k \in IndividualEntries :
                          processed.processedFiles[k].file_name = i}) = 1

\* a merged group of two tasks was formed around a Local or HybridPatch task
\* whose payload lies between theirs
C11_Witness ==
  /\ mergePc = "done"
  /\ MergedEntries # {}
  /\ Len(mergeFiles) = 3
  /\ ModeOfTask(2) \in {"Local", "HybridPatch"}
  /\ \E k \in IndividualEntries : processed.processedFiles[k].file_name = 2

\* runInstall has returned without throwing
RunCompleted == run.pc = "finished"

\* the file the manifest entry names is in the install directory with the
\* entry's hash
InstalledAsManifest(entry) ==
  /\ disk[entry.file_name.base].exists
  /\ <<hashKey, disk[entry.file_name.base].content>> = HashOf(entry, hashKey)

\* C12: after runInstall has completed successfully every file of the
\* manifest's hashed list is installed with the manifest's hash and the
\* manifest's deletes list has been submitted for removal, whatever the
\* install directory held before
C12_ManifestInstalled ==
  RunCompleted =>
    /\ \A i \in DOMAIN latest_meta.hashed : InstalledAsManifest(latest_meta.hashed[i])
    /\ latest_meta.deletes # <<>> => "rm" \in Range(finalOps)

\* every file of the manifest is in the install directory with the manifest's
\* hash and has not been written by this run; the scan has returned
UpToDate ==
  /\ local_meta # <<>>
  /\ \A i \in DOMAIN latest_meta.hashed :
       /\ InstalledAsManifest(latest_meta.hashed[i])
       /\ disk[latest_meta.hashed[i].file_name.base].writes = 0

FileWritingOps == {"lnkDesktop", "lnkProgram", "lnkUninstall", "uninstaller"}

\* C13 as stated: when every file of the manifest is present with the
\* manifest's hash, runInstall computes an empty diff, issues no install
\* operation, writes no file and ends in step 4
C13_NoWriteStepFour ==
  UpToDate =>
    /\ files = <<>> /\ exec = <<>> /\ hist = <<>>
    /\ Range(finalOps) \cap FileWritingOps = {}
    /\ step = 4

\* C13, amended: then the diff is empty, no install operation and no removal
\* is issued and step 4 is set; finishInstall still runs, and the run stays in
\* step 4 unless finishInstall throws
C13_EmptyDiff ==
  UpToDate =>
    /\ files = <<>> /\ exec = <<>> /\ hist = <<>>
    /\ "rm" \notin Range(finalOps)
    /\ run.pc \notin {"errorDialog", "aborted"} => step = 4
    /\ run.pc = "finished" => Range(finalOps) = Range(FinishSteps(config))

\* an up-to-date installation found in the registry: the run has ended in
\* step 4 after writing the uninstaller again
C13_Witness ==
  /\ UpToDate
  /\ run.pc = "finished"
  /\ step = 4
  /\ "uninstaller" \in Range(finalOps)

\* the scan has returned and the diff has been computed
Planned == files # <<>> \/ finalOps # <<>>

\* the local files at the path of a manifest entry, compared without case,
\* separator style and leading separator
LocalAt(entry) ==
  {k \in DOMAIN local_meta : local_meta[k].file_name.base = entry.file_name.base}

TasksOf(entry) == {t \in DOMAIN files : files[t].file_name = entry.file_name}

\* C14: the planner emits a DiffTask for a manifest entry exactly when no
\* local file at the same path has the entry's hash, and a task carries a
\* patch only if the patch leads from the local file's hash to the entry's hash
C14_PlannerDiff ==
  Planned =>
    /\ \A i \in DOMAIN latest_meta.hashed :
         LET entry == latest_meta.hashed[i]
             satisfied == \E k \in LocalAt(entry) :
                            local_meta[k].hash = HashOf(entry, hashKey)
         IN Cardinality(TasksOf(entry)) = IF satisfied THEN 0 ELSE 1
    /\ \A t \in DOMAIN files :
         /\ \E i \in DOMAIN latest_meta.hashed :
              /\ files[t].file_name = latest_meta.hashed[i].file_name
              /\ files[t].hash = HashOf(latest_meta.hashed[i], hashKey)
         /\ files[t].patch.present =>
              /\ files[t].patch.to = files[t].hash
              /\ \E k \in DOMAIN local_meta :
                   /\ local_meta[k].file_name.base = files[t].file_name.base
                   /\ local_meta[k].hash = files[t].patch.from

\* of two manifest entries one is satisfied by a local file and the other has
\* a task that carries the patch from the installed version
C14_Witness ==
  /\ Planned
  /\ Len(latest_meta.hashed) = 2
  /\ Len(files) = 1
  /\ files[1].patch.present
  /\ files[1].old_hash = files[1].patch.from

\* C15: if the planner has marked a diff task unwritable, the run fails
\* before it installs anything: no install operation is issued, no file of
\* the install directory is modified and the run does not complete
C15_LockedRunFails ==
  (\E t \in DOMAIN files : files[t].unwritable) =>
    /\ exec = <<>>
    /\ \A b \in DOMAIN disk : disk[b].writes = 0
    /\ ~RunCompleted

\* C16: with the online-only flag no attempt of a file task of runInstall
\* uses Local or HybridPatch mode
C16_OnlineNoLocal ==
  config.online =>
    \A t \in DOMAIN exec :
      /\ exec[t].pc \in {"url", "ipc"} =>
           exec[t].disable_local /\ exec[t].mode \in {"Patch", "Direct"}
      /\ \A k \in DOMAIN hist[t] : hist[t][k].mode \in {"Patch", "Direct"}

\* with the online-only flag a task whose payload is embedded in the
\* installer has been installed by its first attempt
C16_Witness ==
  /\ config.online
  /\ \E t \in DOMAIN exec :
       /\ HasLocalFile(files[t], local)
       /\ exec[t].pc = "done"
       /\ exec[t].attempt = 1
       /\ hist[t] # <<>>

AllCarry(alg) ==
  \A i \in DOMAIN latest_meta.hashed :
    (IF alg = "md5" THEN latest_meta.hashed[i].md5 ELSE latest_meta.hashed[i].xxh) # <<>>

\* C17: one hash algorithm serves the whole run, md5 if every manifest entry
\* carries md5, otherwise xxh if every entry carries xxh; when neither holds
\* the run fails before it scans the directory or installs anything
C17_SingleHashKey ==
  /\ hashKey \in {"", "md5", "xxh"}
  /\ hashKey = "md5" => AllCarry("md5")
  /\ hashKey = "xxh" => ~AllCarry("md5") /\ AllCarry("xxh")
  /\ (hashKey = "" /\ run.pc # "hashKey") => ~AllCarry("md5") /\ ~AllCarry("xxh")
  /\ (~AllCarry("md5") /\ ~AllCarry("xxh")) =>
       /\ hashKey = "" /\ run.pc \in {"hashKey", "errorDialog", "aborted"}
       /\ local_meta = <<>> /\ files = <<>> /\ exec = <<>> /\ finalOps = <<>>
       /\ \A b \in DOMAIN disk : disk[b].writes = 0
  /\ \A k \in DOMAIN local_meta : local_meta[k].hash[1] = hashKey
  /\ \A t \in DOMAIN files :
       /\ files[t].hash[1] = hashKey
       /\ files[t].patch.present =>
            files[t].patch.from[1] = hashKey /\ files[t].patch.to[1] = hashKey

\* a manifest of which one entry carries only md5 and the other only xxh has
\* been refused
C17_Witness ==
  /\ ~AllCarry("md5") /\ ~AllCarry("xxh")
  /\ \E i \in DOMAIN latest_meta.hashed : latest_meta.hashed[i].md5 # <<>>
  /\ \E i \in DOMAIN latest_meta.hashed : latest_meta.hashed[i].xxh # <<>>
  /\ run.pc = "aborted"
  /\ step = 1

\* some segment of the package has a name outside the known set
HasUnknownSegment ==
  \E i \in DOMAIN reader.package.region :
    /\ reader.package.region[i].kind = "segment"
    /\ reader.package.region[i].name \notin KnownSegments

\* C18: refreshDfsIndex rejects every package whose segment region holds a
\* segment with a name outside the four known names: it throws and caches
\* nothing
C18_UnknownSegmentRejected ==
  HasUnknownSegment => reader.pc # "returned" /\ ~dfsIndexCache.present

\* the session stored for every API URL is one the server granted: its
\* response carried the session id and no challenge
StoredWereGranted ==
  \A u \in ApiUrls :
    dfs2Sessions[u] # 0 => <<u, dfs2Sessions[u]>> \in server.granted

\* C19: no chunk-URL request is issued for an API URL that has no session
\* stored at that moment (getDfs2Url throws session-not-found instead), and
\* a session is stored only by a createDfs2Session call whose response
\* carried a session id and no challenge
C19_RequestsHaveSession ==
  /\ \A q \in requests.log : q.kind = "batch" => q.stored
  /\ StoredWereGranted

\* C19 as the code has it: getDfs2Url throws when no session is stored at
\* the call and otherwise hands the range to the aggregator under the stored
\* session; the batch request goes out later under the session of the last
\* range handed over; every stored session was granted without a challenge
C19_SessionGuard ==
  /\ \A q \in requests.log :
       /\ q.kind = "notFound" => q.sid = 0
       /\ q.kind = "enqueued" => q.sid # 0 /\ <<q.apiUrl, q.sid>> \in server.granted
       /\ q.kind = "batch" =>
            \E e \in requests.log :
              e.kind = "enqueued" /\ e.apiUrl = q.apiUrl /\ e.sid = q.sid
  /\ aggregator.currentSessionUrl # <<>> =>
       aggregator.currentSessionUrl \in server.granted
  /\ StoredWereGranted

\* one call of getDfs2Url has thrown for want of a session, and a batch
\* request has gone out under a session that was stored
C19_Witness ==
  /\ \E q \in requests.log : q.kind = "notFound"
  /\ \E q \in requests.log : q.kind = "batch" /\ q.stored

\* C20: whichever challenge the server issues (md5, sha256 or web),
\* createDfs2Session answers it and returns the session id the server then
\* grants: a call throws only if a backend call failed or the server left
\* the protocol
C20_ChallengesAnswered ==
  /\ session.pc = "thrown" => session.disturbed
  /\ session.pc = "returned" =>
       /\ session.result # 0
       /\ <<session.apiUrl, session.result>> \in server.granted

\* the error classes the claim has retried, and the one it has not
RetriedClasses == {"ConnectionReset", "ConnectionRefused", "Timeout", "Http5xx"}

\* the retry loop never goes past its third attempt, and an HTTP 4xx
\* failure is never retried
AttemptsBounded ==
  /\ session.retryAttempt <= 2
  /\ "Http4xx" \notin session.retried

\* C21: createDfs2Session retries after a connection reset, a refused
\* connection, a timeout or an HTTP 5xx failure, makes at most 3 attempts in
\* all and never retries after an HTTP 4xx failure
C21_RetryOnNetworkAnd5xx ==
  /\ AttemptsBounded
  /\ (session.pc = "thrown" /\ session.error \in RetriedClasses) =>
       session.retryAttempt = 2

\* C21 as the code has it: a connection reset, a refused connection and a
\* timeout are retried, up to 3 attempts in all; an HTTP status failure, 4xx
\* or 5xx, ends the call at once
C21_RetryOnNetworkOnly ==
  /\ AttemptsBounded
  /\ "Http5xx" \notin session.retried
  /\ (session.pc = "thrown" /\ session.error \in RetriedClasses \ {"Http5xx"}) =>
       session.retryAttempt = 2
  /\ (session.pc = "delay") => session.error \in RetriedClasses \ {"Http5xx"}

\* the third attempt has failed with a timeout after two retried failures
C21_Witness ==
  /\ session.pc = "thrown"
  /\ session.error = "Timeout"
  /\ session.retryAttempt = 2
  /\ "ConnectionReset" \in session.retried

\* the sizes of the task list, largest first
SortedSizes == SortDesc([i \in DOMAIN files |-> files[i].size])

\* N = min(4, max(2, floor(0.3 x number of tasks)))
TargetLargeFiles == Min(4, Max(2, (3 * Len(files)) \div 10))

\* the tasks that size >= threshold puts in the large class
LargeClass == {t \in DOMAIN tasks : 5 * getSize(St, tasks[t]) >= sizeThreshold5}

\* C22: for a list of more than 3 tasks the threshold is 80% of the size of
\* the N-th largest task, N = min(4, max(2, floor(0.3 x number of tasks))),
\* and size >= threshold leaves between 2 and 4 tasks in the large class
C22_ThresholdClasses ==
  (Len(files) > 3 /\ todo = <<>>) =>
    /\ sizeThreshold5 = 4 * SortedSizes[TargetLargeFiles]
    /\ Cardinality(LargeClass) \in 2..4

RECURSIVE GapLength(_)
GapLength(gaps) ==
  IF gaps = <<>> THEN 0
  ELSE (Head(gaps).end - Head(gaps).start) + GapLength(Tail(gaps))

\* C23: in every merged group the members are ordered by offset and do not
\* overlap, totalEffectiveSize is the sum of the members' payload sizes,
\* totalDownloadSize is the end of the last member minus the start of the
\* first, and their difference is the total length of the recorded gaps
C23_GroupAccounting ==
  mergePc = "done" =>
    \A k \in DOMAIN groups :
      LET g == groups[k]
          n == Len(g.files)
      IN n >= 2 =>
           /\ \A i \in 1..n : \A j \in 1..n :
                i < j => g.files[i].dfsOffset + g.files[i].dfsSize <= g.files[j].dfsOffset
           /\ g.totalEffectiveSize = GroupPayload(g)
           /\ g.totalDownloadSize = GroupSpan(g)
           /\ g.totalDownloadSize - g.totalEffectiveSize = GapLength(g.gaps)
           /\ \A i \in DOMAIN g.gaps : g.gaps[i].end > g.gaps[i].start

\* a group of three members with two gaps between them
C23_Witness ==
  /\ mergePc = "done"
  /\ \E k \in DOMAIN groups :
       /\ Len(groups[k].files) = 3
       /\ Len(groups[k].gaps) = 2
       /\ GapLength(groups[k].gaps) = 2

\* the download worker of task t is between its first and its last step
InFlight(t) == exec[t].pc \in {"url", "ipc", "murl", "mipc"}

\* the files whose task objects were handed to the worker of task t
FilesOf(task) ==
  IF task.kind = "MergedGroupTask" THEN Range(task.members) ELSE {task.file}

WorkersOf(f) == {t \in DOMAIN tasks : InFlight(t) /\ f \in FilesOf(tasks[t])}

\* the counters of f are written in this step
CountersWritten(f) ==
  \/ files'[f].running # files[f].running
  \/ files'[f].downloaded # files[f].downloaded

\* C24: the counters (running, downloaded) of a file have at most one
\* in-flight download worker, a step writes the counters of a file only on
\* behalf of a worker that was given the file and is in flight before or
\* after the step, and the running flag of a file without an in-flight
\* worker is false
C24_SingleWriter ==
  /\ [](\A f \in DOMAIN files :
          /\ Cardinality(WorkersOf(f)) <= 1
          /\ files[f].running => WorkersOf(f) # {})
  /\ [][\A f \in DOMAIN files :
          CountersWritten(f) =>
            \E t \in DOMAIN tasks' :
              /\ f \in FilesOf(tasks'[t])
              /\ \/ exec'[t].pc \in {"url", "ipc", "murl", "mipc"}
                 \/ t \in DOMAIN tasks /\ InFlight(t)]_vars

\* the fallback task of a member downloads it after the worker of its merged
\* group has ended
C24_Witness ==
  \E t \in DOMAIN tasks : \E u \in DOMAIN tasks :
    /\ tasks[t].kind = "MergedGroupTask"
    /\ exec[t].pc = "done"
    /\ tasks[u].kind # "MergedGroupTask"
    /\ tasks[u].file \in Range(tasks[t].members)
    /\ InFlight(u)
    /\ files[tasks[u].file].running

\* the numbers of a dotted version: 10.0 is <<10, 0>>
RECURSIVE ParseInt(_, _)
ParseInt(ds, n) == IF ds = <<>> THEN n ELSE ParseInt(Tail(ds), 10 * n + DigitValue(Head(ds)))

NumberAt(tag, i) ==
  LET parts == SplitDots(tag, <<>>)
  IN IF i <= Len(parts) THEN ParseInt(parts[i], 0) ELSE 0

\* version a is strictly newer than version b: at the first position where
\* their numbers differ, a has the greater one
Newer(a, b) ==
  \E i \in 1..Max(Len(a), Len(b)) :
    /\ NumberAt(a, i) > NumberAt(b, i)
    /\ \A j \in 1..(i - 1) : NumberAt(a, j) = NumberAt(b, j)

\* C25: runInstall installs the online manifest in place of an available
\* embedded one only if the online version is strictly newer and the user
\* confirmed (or the run is an update without embedded payloads); a silent or
\* non-interactive run installs the embedded manifest when there is one; with
\* no manifest at all the run shows an error and returns to step 1 without
\* any file operation
C25_ManifestChoice ==
  LET s == selection
  IN /\ (run.pc = "selected" /\ s.enbedded_metadata # NoTag /\ s.source = "online") =>
          /\ Newer(s.online_meta, s.enbedded_metadata)
          /\ s.confirmed \/ (s.isUpdate /\ s.embedded_index = 0)
     /\ (run.pc = "selected" /\ s.enbedded_metadata # NoTag
           /\ (s.silent \/ s.non_interactive)) =>
          (s.source = "embedded" /\ s.latest_meta = s.enbedded_metadata)
     /\ (run.pc \notin {"idle", "metadata"} /\ s.enbedded_metadata = NoTag
           /\ s.online_meta = NoTag) =>
          /\ run.pc \in {"noMeta", "returned"}
          /\ run.pc = "returned" => step = 1
          /\ finalOps = <<>> /\ files = <<>> /\ s.source = ""

\* the class of an entry of processedFiles
ClassOf(entry) ==
  IF IsVirtualMergedFile(entry) THEN "merged"
  ELSE IF ModeOfTask(entry.file_name) \in {"Local", "HybridPatch"} THEN "nonMergeable"
  ELSE "single"

\* entry k is the RankOf(k)-th entry of its class
RankOf(k) ==
  LET out == processed.processedFiles
  IN Cardinality({j \in 1..k : ClassOf(out[j]) = ClassOf(out[k])})

\* C26: in the list preprocessFiles returns, the entries of each class (not
\* mergeable, individual, merged group) are in non-increasing order of size,
\* and the k-th entry of a class precedes the (k+1)-th entry of every class
C26_RoundRobin ==
  mergePc = "done" =>
    LET out == processed.processedFiles
    IN \A j \in DOMAIN out : \A k \in DOMAIN out :
         /\ (j < k /\ ClassOf(out[j]) = ClassOf(out[k])) => out[j].size >= out[k].size
         /\ RankOf(k) = RankOf(j) + 1 => j < k

\* two merged groups, the second formed one first because it is larger, with
\* a task that is not mergeable before them
C26_Witness ==
  /\ mergePc = "done"
  /\ LET out == processed.processedFiles
     IN /\ Len(out) >= 3
        /\ ClassOf(out[1]) = "nonMergeable"
        /\ \E j \in DOMAIN out : \E k \in DOMAIN out :
             /\ j < k
             /\ ClassOf(out[j]) = "merged" /\ ClassOf(out[k]) = "merged"
             /\ out[j].size > out[k].size
             /\ out[j].file_name[2] > out[k].file_name[2]

\* C27: refreshDfsIndex stores a cache entry only if the magic was found in
\* the first 256 bytes and the INDEX, META and CONFIG segments were parsed;
\* otherwise it throws and leaves the cache as it was; once the source is
\* cached getDfsMetadata answers from the cache without a remote request
C27_CacheOnlyComplete ==
  /\ [](/\ dfsIndexCache.present =>
             /\ reader.package.magic
             /\ \A n \in {"\\0INDEX", "\\0META", "\\0CONFIG"} :
                  \E i \in DOMAIN reader.package.region :
                    /\ reader.package.region[i] \in
                         {r \in RegionItems : r.kind = "segment" /\ r.name = n}
                    /\ \A j \in 1..(i - 1) : reader.package.region[j].kind # "malformed"
        /\ (reader.pc = "returned") <=> dfsIndexCache.present
        /\ (reader.pc = "thrown") => ~dfsIndexCache.present)
  /\ [][/\ reader'.pc = "thrown" => dfsIndexCache' = dfsIndexCache
        /\ (dfsIndexCache.present /\ reader'.calls # reader.calls) =>
             /\ reader'.pc = "returned"
             /\ reader'.fetches = reader.fetches
             /\ dfsIndexCache' = dfsIndexCache]_vars

\* the first call filled the cache with its two requests and a later call
\* has been answered
C27_Witness ==
  /\ dfsIndexCache.present
  /\ reader.pc = "returned"
  /\ reader.calls >= 1
  /\ reader.fetches = 2

\* a call of waitForCompletion completes in this step: the promise the
\* caller awaits is resolved, or the call returns without waiting
WaitCompletes ==
  /\ waiter' = "returned"
  /\ \/ waiter = "awaiting"
     \/ LET k == Len(todo) - Len(todo')
        IN k >= 1 /\ todo[k] = WaitCall

\* every queue is empty, nothing is running, every task added is recorded
Quiescent(S) ==
  /\ S.largeTaskQueue = <<>> /\ S.smallTaskQueue = <<>> /\ S.localTaskQueue = <<>>
  /\ S.largeTaskRunning = 0 /\ S.smallTaskRunning = 0 /\ S.localTaskRunning = 0
  /\ \A t \in DOMAIN S.tasks : t \in S.completedTasks \cup S.failedTasks

\* C28: waitForCompletion completes only when no task is queued or running
\* and every task added so far, fallback tasks included, is recorded as
\* completed or failed
C28_CompletionBarrier ==
  [][WaitCompletes =>
       Quiescent([largeTaskQueue |-> largeTaskQueue', smallTaskQueue |-> smallTaskQueue',
                  localTaskQueue |-> localTaskQueue',
                  largeTaskRunning |-> largeTaskRunning',
                  smallTaskRunning |-> smallTaskRunning',
                  localTaskRunning |-> localTaskRunning',
                  tasks |-> tasks', completedTasks |-> completedTasks',
                  failedTasks |-> failedTasks'])]_vars

\* task t waits in a queue of the manager
Queued(t) ==
  \/ t \in Range(largeTaskQueue)
  \/ t \in Range(smallTaskQueue)
  \/ t \in Range(localTaskQueue)

\* the tasks of each queue have been started in the order of addTask: no
\* task waits behind a started task of its queue that was added after it
StartedInOrder ==
  \A type \in {"large", "small", "local"} :
    \A t \in Range(Queue(St, type)) :
      \A u \in DOMAIN tasks :
        (exec[u].type = type /\ exec[u].pc # "queued") => u < t

\* C29: if every execute call eventually returns or throws, every task
\* added is eventually started and ends up recorded as completed or failed,
\* the tasks of a queue are started in the order they were added, no task
\* waits in a queue forever, and a pending waitForCompletion eventually
\* completes
C29_Progress ==
  /\ \A t \in TaskIds :
       (t \in allTasks) ~>
         (t \in completedTasks \cup failedTasks /\ t \in DOMAIN exec /\ exec[t].pc = "done")
  /\ \A t \in TaskIds : (t \in allTasks /\ Queued(t)) ~> (t \in allTasks /\ ~Queued(t))
  /\ []StartedInOrder
  /\ (waiter = "awaiting") ~> (waiter = "returned")

\* the fallback tasks of a merged group, added while the four large slots
\* were taken, have been started and have completed, and the caller's wait
\* has ended
C29_Witness ==
  /\ Len(tasks) = 6
  /\ tasks[4].kind = "MergedGroupTask"
  /\ exec[6].type = "large"
  /\ allTasks = completedTasks
  /\ waiter = "returned"

\* the chunk offsets and the chunk ends (offset plus size) of the request
ChunkOffsets == {multiInstall.chunks[i].offset : i \in DOMAIN multiInstall.chunks}

ChunkEnds ==
  {multiInstall.chunks[i].offset + multiInstall.chunks[i].size :
     i \in DOMAIN multiInstall.chunks}

\* C30: the single-range request built for a set of chunks asks for the
\* bytes [start, end), start the smallest chunk offset and end the largest
\* chunk offset plus size: its range string is start-(end - 1)
C30_SingleRange ==
  (multiInstall.pc = "built" /\ multiInstall.request.type = "InstallMultichunkStream") =>
    \E start \in ChunkOffsets : \E end \in ChunkEnds :
      /\ \A o \in ChunkOffsets : start <= o
      /\ \A e \in ChunkEnds : e <= end
      /\ multiInstall.request.range = <<start, end - 1>>

----------------------------------------------------------------------------
(* Results of a merged download *)

\* runMergedGroupDownload of task t returns normally in this step: the task
\* is recorded as completed and the catch block of MergedGroupTask.execute
\* has added no fallback task
ReturnsNormally(t) ==
  /\ tasks[t].kind = "MergedGroupTask"
  /\ exec[t].pc \in {"mipc", "ipc"}
  /\ t \in completedTasks' \ completedTasks
  /\ DOMAIN tasks' = DOMAIN tasks

\* by the end of the step the backend has reported Ok for the chunk of f in
\* the current attempt of t
ChunkOk(t, f) ==
  \E i \in DOMAIN hist'[f] :
    /\ hist'[f][i].ev = "ok"
    /\ hist'[f][i].task = t
    /\ hist'[f][i].attempt = exec[t].attempt

\* f went through a fallback download in the current attempt of t (a failed
\* one would have made runMergedGroupDownload throw)
FallbackDone(t, f) ==
  \E i \in DOMAIN hist'[f] :
    /\ hist'[f][i].ev = "install"
    /\ hist'[f][i].via = "fallback"
    /\ hist'[f][i].task = t
    /\ hist'[f][i].attempt = exec[t].attempt

\* C31 (as claimed): when runMergedGroupDownload returns normally, a member
\* that is left not failed and with downloaded equal to its size had an Ok
\* result for its chunk or a successful individual fallback download.
C31_InstalledOnlyIfOk ==
  [][\A t \in DOMAIN tasks :
       ReturnsNormally(t) =>
         \A f \in Range(tasks[t].members) :
           (~files'[f].failed /\ files'[f].downloaded = files'[f].size)
             => (ChunkOk(t, f) \/ FallbackDone(t, f))]_vars

----------------------------------------------------------------------------
(* Patches attached by the planner *)

\* C32 (as claimed): every patch attached to a task of the plan, as patch
\* or as the hybrid lpatch, leads to the target of the task: its `to` hash
\* is the hash of the task.
C32_PatchTargets ==
  \A t \in DOMAIN files :
    /\ files[t].patch.present => files[t].patch.to = files[t].hash
    /\ files[t].lpatch.present => files[t].lpatch.to = files[t].hash

----------------------------------------------------------------------------
(* The output of preprocessFiles as a partition of its input *)

\* the places where the task named name occurs in the output: as an entry of
\* its own (<<k, 0>>) or as member j of the merged group at entry k
Occurrences(name) ==
  {<<k, 0>> : k \in {i \in IndividualEntries :
                       processed.processedFiles[i].file_name = name}}
  \cup UNION {{<<k, j>> : j \in {m \in DOMAIN processed.processedFiles[k].mergedInfo.files :
                                   processed.processedFiles[k].mergedInfo.files[m].file_name
                                     = name}} :
              k \in MergedEntries}

\* C33: preprocessFiles neither loses nor duplicates work: every input task
\* occurs exactly once in the output, as an entry of its own or as a member
\* of one merged group, nothing else occurs, and every merged group has at
\* least two members.
C33_Partition ==
  mergePc = "done" =>
    /\ \A i \in DOMAIN mergeFiles : Cardinality(Occurrences(i)) = 1
    /\ \A k \in IndividualEntries :
         processed.processedFiles[k].file_name \in DOMAIN mergeFiles
    /\ \A k \in MergedEntries :
         LET v == processed.processedFiles[k]
         IN /\ Len(v.mergedInfo.files) >= 2
            /\ \A m \in Range(v.mergedInfo.files) : m.file_name \in DOMAIN mergeFiles
            /\ v.fallbackFiles = v.mergedInfo.files
            /\ \E g \in Range(processed.mergedGroups) :
                 g.name = v.file_name /\ g.group = v.mergedInfo
    /\ Len(processed.mergedGroups) = Cardinality(MergedEntries)

\* six tasks came out as two merged groups and two entries of their own
C33_Witness ==
  /\ mergePc = "done"
  /\ Len(mergeFiles) = 6
  /\ Cardinality(MergedEntries) = 2
  /\ Cardinality(IndividualEntries) = 2

----------------------------------------------------------------------------
(* Ranges of a DFS2 run *)

\* C34: every byte range a chunk URL is requested for during a DFS2 run, by
\* a merged download, a patch or single-file download or a fallback
\* download, is in the list collectDfs2Ranges returned for the run.
C34_RequestedRangesCollected ==
  rangeRun.requested \subseteq rangeRun.collected

\* a merged group was downloaded, one of its members was fetched again on its
\* own, and a patch range and the installer range were requested as well
C34_Witness ==
  /\ rangeRun.pc = "run"
  /\ rangeRun.pending = {} /\ rangeRun.fallback = {}
  /\ \E k \in MergedEntries :
       LET g == processed.processedFiles[k].mergedInfo
       IN /\ g.mergedRange \in rangeRun.requested
          /\ \E m \in Range(g.files) :
               /\ dfsIndexCache.index[m.hash].present
               /\ RangeOf(dfsIndexCache.index[m.hash]) \in rangeRun.requested
  /\ <<0, dfsIndexCache.installer_end - 1>> \in rangeRun.requested

----------------------------------------------------------------------------
(* Promises of the chunk URL aggregator *)

\* the promises of a batch
PromisesOf(b) == UNION {Range(b.requests[r]) : r \in DOMAIN b.requests}

Waiting(i) ==
  LET r == chunkAgg.promises[i].range
  IN r \in DOMAIN chunkAgg.pendingRequests /\ i \in Range(chunkAgg.pendingRequests[r])

\* C35: every promise of requestChunkUrl is settled exactly once. At every
\* moment a promise is in exactly one place: waiting in pendingRequests with
\* the timer armed, in one batch call in flight, or settled by the one batch
\* call it was sent in - resolved with the URL that call returned for its
\* range, rejected if the call returned no URL for the range or failed - so
\* that all promises of one range in one batch share their outcome.
C35_SettledExactlyOnce ==
  /\ PendingKeys(chunkAgg) # {} => chunkAgg.aggregationTimer
  /\ \A i \in DOMAIN chunkAgg.promises :
       LET p == chunkAgg.promises[i]
           inFlight == {b \in chunkAgg.batches : i \in PromisesOf(b)}
           answers == {x \in chunkAgg.answered : i \in PromisesOf(x.batch)}
       IN /\ p.sent <= 1 /\ p.calls <= 1
          /\ \/ /\ Waiting(i) /\ inFlight = {} /\ answers = {}
                /\ p.sent = 0 /\ p.calls = 0 /\ p.state = "pending"
             \/ /\ ~Waiting(i) /\ Cardinality(inFlight) = 1 /\ answers = {}
                /\ p.sent = 1 /\ p.calls = 0 /\ p.state = "pending"
             \/ /\ ~Waiting(i) /\ inFlight = {} /\ Cardinality(answers) = 1
                /\ p.sent = 1 /\ p.calls = 1
                /\ \A x \in answers :
                     IF ~x.threw /\ x.urls[p.range] = "url"
                       THEN p.state = "resolved"
                            /\ p.value = <<x.batch.sessionApiUrl, p.range>>
                       ELSE p.state = "rejected"
  /\ \A x \in chunkAgg.answered : \A i, j \in PromisesOf(x.batch) :
       chunkAgg.promises[i].range = chunkAgg.promises[j].range
         => /\ chunkAgg.promises[i].state = chunkAgg.promises[j].state
            /\ chunkAgg.promises[i].value = chunkAgg.promises[j].value

\* two promises of one range were resolved by one batch call, and a promise
\* made while that call was in flight was rejected by a later one
C35_Witness ==
  /\ \E x \in chunkAgg.answered : \E i, j \in PromisesOf(x.batch) :
       /\ i # j
       /\ chunkAgg.promises[i].range = chunkAgg.promises[j].range
       /\ chunkAgg.promises[i].state = "resolved"
  /\ \E k \in DOMAIN chunkAgg.promises :
       chunkAgg.promises[k].during > 0 /\ chunkAgg.promises[k].state = "rejected"

----------------------------------------------------------------------------
(* The reported and the actual install mode *)

\* C36: while a task class runs runDfsDownload for its file, with
\* disable_patch and disable_local both set to the file's failed flag, the
\* branch runDfsDownload has taken is the mode getFileInstallMode reports
\* for the file and the embedded files.
C36_ReportedModeIsUsed ==
  \A t \in DOMAIN exec :
    (/\ tasks[t].kind # "MergedGroupTask"
     /\ exec[t].via = "task"
     /\ exec[t].pc \in {"url", "ipc"})
      => /\ exec[t].disable_patch = files[exec[t].cur].failed
         /\ exec[t].disable_local = files[exec[t].cur].failed
         /\ exec[t].mode = getFileInstallMode(files[exec[t].cur], local)
         /\ \A i \in DOMAIN hist[exec[t].cur] :
              (hist[exec[t].cur][i].ev = "install" /\ hist[exec[t].cur][i].task = t)
                => hist[exec[t].cur][i].mode = getFileInstallMode(files[exec[t].cur], local)

\* a failed file with an embedded payload, an embedded lpatch source and a
\* patch is being downloaded Direct
C36_Witness ==
  \E t \in DOMAIN exec :
    /\ tasks[t].kind = "SingleFileTask"
    /\ exec[t].pc = "ipc"
    /\ files[exec[t].cur].failed
    /\ HasLocalFile(files[exec[t].cur], local)
    /\ HasLpatchFile(files[exec[t].cur], local)
    /\ files[exec[t].cur].patch.present
    /\ exec[t].mode = "Direct"

----------------------------------------------------------------------------
(* Downloads of a failed run *)

\* C37 (as claimed): when install() has put the UI back to step 1 after a
\* failed run, no download started by that run is still in progress.
C37_NoDownloadAfterAbort ==
  (run.pc = "aborted" /\ step = 1) =>
    \A t \in DOMAIN exec :
      exec[t].type = "install" => (exec[t].pc \notin {"url", "ipc"} /\ ~files[t].running)

\* C38 (as claimed): every session that has left the session store, removed
\* or replaced, had an end_dfs2_session call issued for it by then, and when
\* cleanupAllDfs2Sessions returns the store is empty.
C38_NoSessionDroppedSilently ==
  /\ [](storeRun.removed \subseteq storeRun.ended)
  /\ [][(storeRun.all = "waiting" /\ storeRun'.all = "idle")
          => StoredSessions(dfs2Sessions') = {}]_vars

\* C39 (as claimed): every member of a multi-file group has an entry in the
\* remote index and carries exactly that entry's offset and size as its
\* position; a task whose hash is missing from the index stays alone.
C39_MembersAreIndexed ==
  mergePc = "done" =>
    \A g \in Range(groups) :
      Len(g.files) > 1 =>
        \A f \in Range(g.files) :
          /\ dfsIndexCache.present
          /\ dfsIndexCache.index[f.hash].present
          /\ f.dfsOffset = dfsIndexCache.index[f.hash].offset
          /\ f.dfsSize = dfsIndexCache.index[f.hash].size

\* C40 (as claimed): all the chunk URLs getChunkUrl has returned for one
\* repository refer to the same release version.
C40_OneVersionPerRepo ==
  \A r1, r2 \in github.returned :
    r1.repo = r2.repo => VersionOf(r1.url) = VersionOf(r2.url)

====
